---- MODULE Spec2Model ----
(***************************************************************************)
(* Access decision engine of the gate service: Service.CheckAccess and the *)
(* repositories, domain predicates and administrative operations it reads. *)
(*                                                                         *)
(* Time is a logical clock `now` (time.Now() in Go and NOW() in SQL).      *)
(* Plates are sequences of one-character strings so that                   *)
(* NormalizeLicensePlate can be computed character by character.           *)
(* Confidence values are integers in hundredths (access_logs stores        *)
(* DECIMAL(5,2)): 70 is 0.70 and 10000 is 100.00.                          *)
(***************************************************************************)
EXTENDS Integers, Sequences, FiniteSets, TLC

(***************************************************************************)
(* Bounds and sample domains                                               *)
(***************************************************************************)
MaxTime == 2
MaxFaults == 1

Times == 0..MaxTime
NoTime == -1

Users == {"u1"}
VehicleIds == {"v1"}
PassIds == {"p1", "p2"}
WhitelistIds == {"w1"}
BlacklistIds == {"b1"}

NoRow == [absent |-> TRUE]

\* "A123BC", the plate the store knows, with an un-normalized spelling of it,
\* and "X999YZ", a plate the store never holds.
PlateA == <<"A", "1", "2", "3", "B", "C">>
RawPlateA == <<"a", "1", "2", "3", " ", "b", "c">>
\* a second plate, for an entry whose plate is changed
PlateB == <<"B", "4", "5", "6", "C", "D">>
PlateX == <<"X", "9", "9", "9", "Y", "Z">>
NoPlate == <<>>

RevokeReasons == {"fraud"}
WhitelistReasons == {"emergency services"}
BlacklistReasons == {"stolen"}

(***************************************************************************)
(* domain.NormalizeLicensePlate                                            *)
(***************************************************************************)
LowerChars == <<"a", "b", "c", "d", "e", "f", "g", "h", "i", "j", "k", "l", "m",
                "n", "o", "p", "q", "r", "s", "t", "u", "v", "w", "x", "y", "z">>
UpperChars == <<"A", "B", "C", "D", "E", "F", "G", "H", "I", "J", "K", "L", "M",
                "N", "O", "P", "Q", "R", "S", "T", "U", "V", "W", "X", "Y", "Z">>

ToUpper(c) ==
    IF \E i \in 1..Len(LowerChars) : LowerChars[i] = c
    THEN UpperChars[CHOOSE i \in 1..Len(LowerChars) : LowerChars[i] = c]
    ELSE c

IsNotSpace(c) == c # " "

\* NormalizeLicensePlate that removes the first space only
NormalizeLicensePlate_FirstSpaceOnly(plate) ==
    LET spaces == {i \in 1..Len(plate) : plate[i] = " "}
        first == CHOOSE i \in spaces : \A k \in spaces : i <= k
        stripped == IF spaces = {} THEN plate
                    ELSE SubSeq(plate, 1, first - 1) \o SubSeq(plate, first + 1, Len(plate))
    IN  [i \in 1..Len(stripped) |-> ToUpper(stripped[i])]

NormalizeLicensePlate(plate) ==
    LET stripped == SelectSeq(plate, IsNotSpace)
    IN  [i \in 1..Len(stripped) |-> ToUpper(stripped[i])]

(***************************************************************************)
(* domain.Pass                                                             *)
(***************************************************************************)
PassTypePermanent == "permanent"
PassTypeTemporary == "temporary"

\* IsValid with the end of the window excluded
IsValid_ExclusiveUntil(p, t) ==
    IF ~p.is_active THEN FALSE
    ELSE IF t < p.valid_from THEN FALSE
    ELSE IF p.pass_type = PassTypeTemporary /\ p.valid_until # NoTime
                /\ t >= p.valid_until THEN FALSE
    ELSE TRUE

\* IsValid that applies valid_until to passes of every type
IsValid_UntilForEveryType(p, t) ==
    IF ~p.is_active THEN FALSE
    ELSE IF t < p.valid_from THEN FALSE
    ELSE IF p.valid_until # NoTime /\ t > p.valid_until THEN FALSE
    ELSE TRUE

\* Pass.IsValid at the instant t (time.Now() inside the method)
IsValid(p, t) ==
    IF ~p.is_active THEN FALSE
    ELSE IF t < p.valid_from THEN FALSE
    ELSE IF p.pass_type = PassTypeTemporary /\ p.valid_until # NoTime
                /\ t > p.valid_until THEN FALSE
    ELSE TRUE

\* Pass.Validate (UserID and PassType are drawn from valid sets)
PassValidate(p) ==
    IF p.pass_type \notin {PassTypePermanent, PassTypeTemporary} THEN FALSE
    ELSE IF p.pass_type = PassTypeTemporary /\ p.valid_until = NoTime THEN FALSE
    ELSE IF p.pass_type = PassTypeTemporary /\ p.valid_until < p.valid_from THEN FALSE
    ELSE TRUE

\* CONSTRAINT valid_dates_check of table passes
ValidDatesCheck(p) == p.valid_until = NoTime \/ p.valid_until > p.valid_from

(***************************************************************************)
(* domain.AccessLog                                                        *)
(***************************************************************************)
MinConfidence == 70
MaxConfidence == 10000

Directions == {"IN", "OUT"}

\* AccessLog.Validate
AccessLogValidate(al) ==
    IF al.LicensePlate = NoPlate THEN FALSE
    ELSE IF al.Direction \notin Directions THEN FALSE
    ELSE IF al.RecognitionConfidence < 0 \/ al.RecognitionConfidence > MaxConfidence THEN FALSE
    ELSE TRUE

(***************************************************************************)
(* Priority-list cache: the caching WhitelistRepository and                *)
(* BlacklistRepository in front of the postgres repositories.  Keys,       *)
(* cached values and reasons are sequences of one-character strings so     *)
(* that the "0:" / "1:<reason>" encoding and strings.SplitN are computed.  *)
(* Each repository method is one action; the outcome of every call it      *)
(* makes to the cache or to the store is chosen inside the action.         *)
(***************************************************************************)
ListKinds == {"whitelist", "blacklist"}

whitelistCachePrefix == <<"w", "h", "i", "t", "e", "l", "i", "s", "t", ":">>
blacklistCachePrefix == <<"b", "l", "a", "c", "k", "l", "i", "s", "t", ":">>

\* time.Hour in ticks of the clock: a tick is twenty minutes
OneHour == 3

\* a TTL of two hours
CacheTTL_TwoHours == 2 * OneHour

\* whitelistCacheTTL / blacklistCacheTTL = 1 * time.Hour
CacheTTL == 1 * OneHour

\* the (list, licensePlate) pairs the repositories are asked about and the
\* reasons entries are given
CachePlates ==
    {<<"whitelist", RawPlateA>>, <<"whitelist", PlateA>>, <<"blacklist", PlateA>>}
CacheReasons == {<<"a", ":", "b">>}
NoReason == <<>>

CachePrefix(kind) ==
    IF kind = "whitelist" THEN whitelistCachePrefix ELSE blacklistCachePrefix

\* cacheKey := whitelistCachePrefix + licensePlate
cacheKey(kind, licensePlate) == CachePrefix(kind) \o licensePlate

CacheKeys ==
    {cacheKey(c[1], c[2]) : c \in CachePlates} \cup {cacheKey(kind, PlateB) : kind \in ListKinds}

\* strings.SplitN cutting at the last ":" instead of the first
SplitN2_AtLastColon(s) ==
    IF \A i \in 1..Len(s) : s[i] # ":" THEN <<s>>
    ELSE LET i == CHOOSE k \in 1..Len(s) :
                      s[k] = ":" /\ \A j \in (k + 1)..Len(s) : s[j] # ":"
         IN  <<SubSeq(s, 1, i - 1), SubSeq(s, i + 1, Len(s))>>

\* strings.SplitN(s, ":", 2)
SplitN2(s) ==
    IF \A i \in 1..Len(s) : s[i] # ":" THEN <<s>>
    ELSE LET i == CHOOSE k \in 1..Len(s) :
                      s[k] = ":" /\ \A j \in 1..(k - 1) : s[j] # ":"
         IN  <<SubSeq(s, 1, i - 1), SubSeq(s, i + 1, Len(s))>>

\* cacheValue := "0:" / "1:" + reason
CacheValue(inList, reason) ==
    IF inList THEN <<"1", ":">> \o reason ELSE <<"0", ":">>

\* the record an operation of a caching repository leaves in op: what it was
\* called with, what it returned, the value it read from and wrote to the
\* cache, the calls to the store and to the cache that failed and the reply
\* of DEL
OpOf(name, kind, licensePlate) ==
    [name |-> name, kind |-> kind, licensePlate |-> licensePlate,
     found |-> FALSE, reason |-> NoReason, err |-> "", hit |-> FALSE,
     cached |-> <<>>, cacheValue |-> <<>>, failedCalls |-> {}, removed |-> 0]

(***************************************************************************)
(* State                                                                   *)
(***************************************************************************)
VARIABLES
    now,                \* the clock
    users,              \* table users: id -> row
    vehicles,           \* table vehicles: id -> row
    passes,             \* table passes: id -> row
    pass_vehicles,      \* table pass_vehicles: set of <<pass_id, vehicle_id>>
    whitelist,          \* table whitelist: id -> row
    blacklist,          \* table blacklist: id -> row
    access_logs,        \* rows the current CheckAccess call appended to access_logs
    pc,                 \* position of the CheckAccess call
    req,                \* its CheckAccessRequest
    recognitionResult,  \* what mlClient.RecognizePlate returned
    response,           \* its CheckAccessResponse
    vehicle,            \* local `vehicle`
    user,               \* local `user`
    lookups,            \* the collaborator calls the call has issued, in order
    failed,             \* the collaborator calls that returned an error
    result,             \* what the call returned: "none", "response" or "error"
    held,               \* the *domain.Pass an administrative routine holds in memory
    cache,              \* the key-value cache: key -> entry
    op                  \* the last operation of a caching repository, or the last
                        \* application of a function, and what it returned

storeVars == <<users, vehicles, passes, pass_vehicles, whitelist, blacklist>>
callVars == <<access_logs, pc, req, recognitionResult, response, vehicle, user,
              lookups, failed, result>>
extVars == <<held, cache, op>>
vars == <<now, users, vehicles, passes, pass_vehicles, whitelist, blacklist,
          access_logs, pc, req, recognitionResult, response, vehicle, user,
          lookups, failed, result, held, cache, op>>

NoResponse ==
    [AccessGranted |-> FALSE, LicensePlate |-> NoPlate, Confidence |-> 0,
     Vehicle |-> "", User |-> "", Pass |-> "", Reason |-> ""]

NoRecognition ==
    [err |-> FALSE, Success |-> FALSE, LicensePlate |-> NoPlate, Confidence |-> 0,
     Error |-> ""]

NoRequest == [GateID |-> "", Direction |-> ""]

\* no key is set in the cache
NoCache == [k \in CacheKeys |-> NoRow]

\* no caching-repository operation has run yet
NoOp == [name |-> "none"]

Init ==
    /\ now = 0
    /\ users = [u \in Users |-> NoRow]
    /\ vehicles = [v \in VehicleIds |-> NoRow]
    /\ passes = [p \in PassIds |-> NoRow]
    /\ pass_vehicles = {}
    /\ whitelist = [w \in WhitelistIds |-> NoRow]
    /\ blacklist = [b \in BlacklistIds |-> NoRow]
    /\ access_logs = <<>>
    /\ pc = "idle"
    /\ req = NoRequest
    /\ recognitionResult = NoRecognition
    /\ response = NoResponse
    /\ vehicle = ""
    /\ user = ""
    /\ lookups = <<>>
    /\ failed = {}
    /\ result = "none"
    /\ held = NoRow
    /\ cache = NoCache
    /\ op = NoOp

(***************************************************************************)
(* Repository queries (package postgres)                                   *)
(***************************************************************************)
\* MatchingEntries without the condition on expires_at
MatchingEntries_AnyExpiry(table, licensePlate) ==
    {id \in DOMAIN table :
        /\ table[id] # NoRow
        /\ table[id].license_plate = NormalizeLicensePlate(licensePlate)
        /\ table[id].is_active}

\* MatchingEntries with the plate compared as recognized, not normalized
MatchingEntries_RawPlate(table, licensePlate) ==
    {id \in DOMAIN table :
        /\ table[id] # NoRow
        /\ table[id].license_plate = licensePlate
        /\ table[id].is_active
        /\ (table[id].expires_at = NoTime \/ table[id].expires_at > now)}

\* rows of a priority list that the IsWhitelisted / IsBlacklisted query matches
MatchingEntries(table, licensePlate) ==
    {id \in DOMAIN table :
        /\ table[id] # NoRow
        /\ table[id].license_plate = NormalizeLicensePlate(licensePlate)
        /\ table[id].is_active
        /\ (table[id].expires_at = NoTime \/ table[id].expires_at > now)}

\* LIMIT 1 without ORDER BY: any matching row may be the one returned
ListLookup(table, licensePlate) ==
    IF MatchingEntries(table, licensePlate) = {}
    THEN {[found |-> FALSE, reason |-> ""]}
    ELSE {[found |-> TRUE, reason |-> table[id].reason] :
             id \in MatchingEntries(table, licensePlate)}

\* whitelistRepository.IsWhitelisted: the set of answers the query can give
IsWhitelisted(licensePlate) == ListLookup(whitelist, licensePlate)

\* blacklistRepository.IsBlacklisted
IsBlacklisted(licensePlate) == ListLookup(blacklist, licensePlate)

\* vehicleRepository.GetByLicensePlate: the ids found (license_plate is UNIQUE)
GetByLicensePlate(licensePlate) ==
    {v \in VehicleIds :
        /\ vehicles[v] # NoRow
        /\ vehicles[v].license_plate = NormalizeLicensePlate(licensePlate)}

\* passRepository.GetActivePassesByUserAndVehicle: the ids the WHERE clause keeps
ActivePassIds(userID, vehicleID) ==
    {p \in PassIds :
        /\ passes[p] # NoRow
        /\ passes[p].user_id = userID
        /\ <<p, vehicleID>> \in pass_vehicles
        /\ passes[p].is_active}

\* ORDER BY created_at ASC over a set of pass ids
RECURSIVE OrderByCreatedAtAsc(_)
OrderByCreatedAtAsc(ids) ==
    IF ids = {} THEN <<>>
    ELSE LET oldest == CHOOSE p \in ids :
                           \A q \in ids : passes[p].created_at <= passes[q].created_at
         IN  <<oldest>> \o OrderByCreatedAtAsc(ids \ {oldest})

\* ORDER BY created_at DESC over a set of pass ids
RECURSIVE OrderByCreatedAtDesc(_)
OrderByCreatedAtDesc(ids) ==
    IF ids = {} THEN <<>>
    ELSE LET newest == CHOOSE p \in ids :
                           \A q \in ids : passes[q].created_at <= passes[p].created_at
         IN  <<newest>> \o OrderByCreatedAtDesc(ids \ {newest})

GetActivePassesByUserAndVehicle(userID, vehicleID) ==
    OrderByCreatedAtDesc(ActivePassIds(userID, vehicleID))

(***************************************************************************)
(* Administrative operations; they run between access checks              *)
(***************************************************************************)
\* auth.Service.Register
Register(u) ==
    /\ pc = "idle"
    /\ users[u] = NoRow
    /\ users' = [users EXCEPT ![u] = [is_active |-> TRUE]]
    /\ UNCHANGED <<now, vehicles, passes, pass_vehicles, whitelist, blacklist>>
    /\ UNCHANGED callVars
    /\ UNCHANGED extVars

\* userRepository.Update / Delete (Delete is the soft delete is_active = false)
UserUpdate(u, isActive) ==
    /\ pc = "idle"
    /\ users[u] # NoRow
    /\ users' = [users EXCEPT ![u] = [is_active |-> isActive]]
    /\ UNCHANGED <<now, vehicles, passes, pass_vehicles, whitelist, blacklist>>
    /\ UNCHANGED callVars
    /\ UNCHANGED extVars

\* vehicle.Service.CreateVehicle
CreateVehicle(v, ownerID, licensePlate) ==
    /\ pc = "idle"
    /\ vehicles[v] = NoRow
    /\ users[ownerID] # NoRow
    /\ users[ownerID].is_active
    /\ GetByLicensePlate(licensePlate) = {}
    /\ licensePlate # NoPlate
    /\ Len(NormalizeLicensePlate(licensePlate)) >= 5
    /\ Len(NormalizeLicensePlate(licensePlate)) <= 20
    /\ vehicles' = [vehicles EXCEPT ![v] =
                       [owner_id |-> ownerID,
                        license_plate |-> NormalizeLicensePlate(licensePlate),
                        is_active |-> TRUE]]
    /\ UNCHANGED <<now, users, passes, pass_vehicles, whitelist, blacklist>>
    /\ UNCHANGED callVars
    /\ UNCHANGED extVars

\* vehicleRepository.Update / Delete on the active flag
VehicleUpdate(v, isActive) ==
    /\ pc = "idle"
    /\ vehicles[v] # NoRow
    /\ vehicles' = [vehicles EXCEPT ![v].is_active = isActive]
    /\ UNCHANGED <<now, users, passes, pass_vehicles, whitelist, blacklist>>
    /\ UNCHANGED callVars
    /\ UNCHANGED extVars

\* created_at of the next pass row: later than every stored one
NextCreatedAt ==
    1 + Cardinality({p \in PassIds : passes[p] # NoRow})

\* pass.Service.CreatePass with passRepository.Create and passVehicleRepo.Create
CreatePass(p, userID, passType, validFrom, validUntil, vehicleIDs) ==
    LET pass == [user_id |-> userID, pass_type |-> passType,
                 valid_from |-> validFrom, valid_until |-> validUntil,
                 is_active |-> TRUE, revoked_at |-> NoTime, revoked_by |-> "",
                 revoke_reason |-> "", created_at |-> NextCreatedAt]
    IN  /\ pc = "idle"
        /\ passes[p] = NoRow
        /\ users[userID] # NoRow
        /\ users[userID].is_active
        /\ vehicleIDs # {}
        /\ \A v \in vehicleIDs :
              /\ vehicles[v] # NoRow
              /\ vehicles[v].owner_id = userID
              /\ vehicles[v].is_active
        /\ PassValidate(pass)
        /\ ValidDatesCheck(pass)
        /\ passes' = [passes EXCEPT ![p] = pass]
        /\ pass_vehicles' = pass_vehicles \cup {<<p, v>> : v \in vehicleIDs}
        /\ UNCHANGED <<now, users, vehicles, whitelist, blacklist>>
        /\ UNCHANGED callVars
        /\ UNCHANGED extVars
    /\ UNCHANGED extVars

\* pass.Service.RevokePass with passRepository.Revoke: one UPDATE statement
RevokePass(p, revokedBy, reason) ==
    /\ pc = "idle"
    /\ passes[p] # NoRow
    /\ passes[p].is_active
    /\ passes' = [passes EXCEPT ![p].is_active = FALSE,
                                ![p].revoked_at = now,
                                ![p].revoked_by = revokedBy,
                                ![p].revoke_reason = reason]
    /\ UNCHANGED <<now, users, vehicles, pass_vehicles, whitelist, blacklist>>
    /\ UNCHANGED callVars
    /\ UNCHANGED extVars

\* the row whitelistRepository.Create / Update and blacklistRepository.Create /
\* Update write: the plate is normalized on the way in
EntryRow(licensePlate, reason, expiresAt, isActive) ==
    [license_plate |-> NormalizeLicensePlate(licensePlate), reason |-> reason,
     expires_at |-> expiresAt, is_active |-> isActive]

\* whitelistRepository.Create
WhitelistCreate(id, licensePlate, reason, expiresAt, isActive) ==
    /\ pc = "idle"
    /\ whitelist[id] = NoRow
    /\ whitelist' = [whitelist EXCEPT ![id] =
                        EntryRow(licensePlate, reason, expiresAt, isActive)]
    /\ UNCHANGED <<now, users, vehicles, passes, pass_vehicles, blacklist>>
    /\ UNCHANGED callVars
    /\ UNCHANGED extVars

\* whitelistRepository.Update
WhitelistUpdate(id, licensePlate, reason, expiresAt, isActive) ==
    /\ pc = "idle"
    /\ whitelist[id] # NoRow
    /\ whitelist' = [whitelist EXCEPT ![id] =
                        EntryRow(licensePlate, reason, expiresAt, isActive)]
    /\ UNCHANGED <<now, users, vehicles, passes, pass_vehicles, blacklist>>
    /\ UNCHANGED callVars
    /\ UNCHANGED extVars

\* whitelistRepository.Delete
WhitelistDelete(id) ==
    /\ pc = "idle"
    /\ whitelist[id] # NoRow
    /\ whitelist' = [whitelist EXCEPT ![id] = NoRow]
    /\ UNCHANGED <<now, users, vehicles, passes, pass_vehicles, blacklist>>
    /\ UNCHANGED callVars
    /\ UNCHANGED extVars

\* blacklistRepository.Create
BlacklistCreate(id, licensePlate, reason, expiresAt, isActive) ==
    /\ pc = "idle"
    /\ blacklist[id] = NoRow
    /\ blacklist' = [blacklist EXCEPT ![id] =
                        EntryRow(licensePlate, reason, expiresAt, isActive)]
    /\ UNCHANGED <<now, users, vehicles, passes, pass_vehicles, whitelist>>
    /\ UNCHANGED callVars
    /\ UNCHANGED extVars

\* blacklistRepository.Update
BlacklistUpdate(id, licensePlate, reason, expiresAt, isActive) ==
    /\ pc = "idle"
    /\ blacklist[id] # NoRow
    /\ blacklist' = [blacklist EXCEPT ![id] =
                        EntryRow(licensePlate, reason, expiresAt, isActive)]
    /\ UNCHANGED <<now, users, vehicles, passes, pass_vehicles, whitelist>>
    /\ UNCHANGED callVars
    /\ UNCHANGED extVars

\* blacklistRepository.Delete
BlacklistDelete(id) ==
    /\ pc = "idle"
    /\ blacklist[id] # NoRow
    /\ blacklist' = [blacklist EXCEPT ![id] = NoRow]
    /\ UNCHANGED <<now, users, vehicles, passes, pass_vehicles, whitelist>>
    /\ UNCHANGED callVars
    /\ UNCHANGED extVars

\* the clock advances
Tick ==
    /\ pc = "idle"
    /\ now < MaxTime
    /\ now' = now + 1
    /\ UNCHANGED storeVars
    /\ UNCHANGED callVars
    /\ UNCHANGED extVars

(***************************************************************************)
(* access.Service.CheckAccess, one action per collaborator call            *)
(***************************************************************************)
\* what mlClient.RecognizePlate can hand back: a transport error, a result
\* with success = false, or a recognized plate with its confidence
RecognizerErrors == {"no plate detected"}

RecognitionOutcomes ==
    {[err |-> TRUE, Success |-> FALSE, LicensePlate |-> NoPlate, Confidence |-> 0,
      Error |-> ""],
     [err |-> FALSE, Success |-> FALSE, LicensePlate |-> NoPlate, Confidence |-> 0,
      Error |-> "no plate detected"],
     [err |-> FALSE, Success |-> TRUE, LicensePlate |-> RawPlateA, Confidence |-> 95,
      Error |-> ""],
     [err |-> FALSE, Success |-> TRUE, LicensePlate |-> PlateA, Confidence |-> 50,
      Error |-> ""],
     [err |-> FALSE, Success |-> TRUE, LicensePlate |-> PlateX, Confidence |-> 95,
      Error |-> ""]}

Requests == {[GateID |-> "gate-1", Direction |-> "IN"]}

\* a collaborator call may fail while the call has faults left to suffer
MayFail == Cardinality(failed) < MaxFaults

\* the domain.AccessLog that logAccess builds
AccessLogOf(resp, request, veh, usr) ==
    [LicensePlate |-> resp.LicensePlate,
     RecognitionConfidence |-> resp.Confidence,
     AccessGranted |-> resp.AccessGranted,
     AccessReason |-> resp.Reason,
     GateID |-> request.GateID,
     Direction |-> request.Direction,
     VehicleID |-> veh,
     UserID |-> usr]

\* Service.logAccess: the access_logs and failed it can leave behind
logAccess(resp, request, veh, usr) ==
    IF ~AccessLogValidate(AccessLogOf(resp, request, veh, usr))
    THEN {[logs |-> access_logs, failed |-> failed]}
    ELSE {[logs |-> Append(access_logs, AccessLogOf(resp, request, veh, usr)),
           failed |-> failed]}
         \cup (IF MayFail
               THEN {[logs |-> access_logs,
                      failed |-> failed \cup {"accessLogRepo.Create"}]}
               ELSE {})

\* Finish that returns an error when the audit row was not written
Finish_ErrorOnAuditFailure(resp, veh, usr) ==
    /\ \E out \in logAccess(resp, req, veh, usr) :
          /\ access_logs' = out.logs
          /\ failed' = out.failed
          /\ response' = IF out.logs = access_logs THEN NoResponse ELSE resp
          /\ result' = IF out.logs = access_logs THEN "error" ELSE "response"
    /\ pc' = "done"

\* a terminal transition: fill in the response, write the audit row, return
Finish(resp, veh, usr) ==
    /\ response' = resp
    /\ \E out \in logAccess(resp, req, veh, usr) :
          /\ access_logs' = out.logs
          /\ failed' = out.failed
    /\ pc' = "done"
    /\ result' = "response"

\* `return nil, fmt.Errorf(...)`
Fail(call) ==
    /\ response' = NoResponse
    /\ failed' = failed \cup {call}
    /\ access_logs' = access_logs
    /\ pc' = "done"
    /\ result' = "error"

\* step 1: mlClient.RecognizePlate (lines 77-115)
Recognize(request, rec) ==
    /\ pc = "idle"
    /\ req' = request
    /\ recognitionResult' = rec
    /\ lookups' = <<"RecognizePlate">>
    /\ vehicle' = ""
    /\ user' = ""
    /\ IF rec.err
       THEN /\ response' = [NoResponse EXCEPT
                               !.Reason = "Recognition service unavailable"]
            /\ \E out \in logAccess(response', request, "", "") :
                  /\ access_logs' = out.logs
                  /\ failed' = out.failed
            /\ pc' = "done"
            /\ result' = "response"
       ELSE IF ~rec.Success
       THEN /\ response' = [NoResponse EXCEPT
                               !.Reason = "License plate not recognized: " \o rec.Error]
            /\ \E out \in logAccess(response', request, "", "") :
                  /\ access_logs' = out.logs
                  /\ failed' = out.failed
            /\ pc' = "done"
            /\ result' = "response"
       ELSE /\ response' = [NoResponse EXCEPT
                               !.LicensePlate = rec.LicensePlate,
                               !.Confidence = rec.Confidence]
            /\ pc' = "whitelist"
            /\ UNCHANGED <<access_logs, failed, result>>
    /\ UNCHANGED now
    /\ UNCHANGED storeVars
    /\ UNCHANGED extVars

\* CheckWhitelist that still queries the deny-list after an allow-list hit
CheckWhitelist_AlsoBlacklist ==
    /\ pc = "whitelist"
    /\ \/ /\ MayFail
          /\ lookups' = Append(lookups, "IsWhitelisted")
          /\ failed' = failed \cup {"IsWhitelisted"}
          /\ pc' = "blacklist"
          /\ UNCHANGED <<access_logs, response, result>>
       \/ \E r \in IsWhitelisted(recognitionResult.LicensePlate) :
             IF r.found
             THEN /\ lookups' = Append(Append(lookups, "IsWhitelisted"), "IsBlacklisted")
                  /\ Finish([response EXCEPT !.AccessGranted = TRUE,
                                             !.Reason = "Whitelisted: " \o r.reason],
                            "", "")
             ELSE /\ lookups' = Append(lookups, "IsWhitelisted")
                  /\ pc' = "blacklist"
                  /\ UNCHANGED <<access_logs, failed, response, result>>
    /\ UNCHANGED <<now, req, recognitionResult, vehicle, user>>
    /\ UNCHANGED storeVars
    /\ UNCHANGED extVars

\* CheckWhitelist that returns the lookup error to the caller
CheckWhitelist_FailClosed ==
    /\ pc = "whitelist"
    /\ lookups' = Append(lookups, "IsWhitelisted")
    /\ \/ /\ MayFail
          /\ Fail("IsWhitelisted")
       \/ \E r \in IsWhitelisted(recognitionResult.LicensePlate) :
             IF r.found
             THEN Finish([response EXCEPT !.AccessGranted = TRUE,
                                          !.Reason = "Whitelisted: " \o r.reason],
                         "", "")
             ELSE /\ pc' = "blacklist"
                  /\ UNCHANGED <<access_logs, failed, response, result>>
    /\ UNCHANGED <<now, req, recognitionResult, vehicle, user>>
    /\ UNCHANGED storeVars
    /\ UNCHANGED extVars

\* step 2: whitelistRepo.IsWhitelisted (lines 117-135)
CheckWhitelist ==
    /\ pc = "whitelist"
    /\ lookups' = Append(lookups, "IsWhitelisted")
    /\ \/ /\ MayFail
          /\ failed' = failed \cup {"IsWhitelisted"}
          /\ pc' = "blacklist"
          /\ UNCHANGED <<access_logs, response, result>>
       \/ \E r \in IsWhitelisted(recognitionResult.LicensePlate) :
             IF r.found
             THEN Finish([response EXCEPT !.AccessGranted = TRUE,
                                          !.Reason = "Whitelisted: " \o r.reason],
                         "", "")
             ELSE /\ pc' = "blacklist"
                  /\ UNCHANGED <<access_logs, failed, response, result>>
    /\ UNCHANGED <<now, req, recognitionResult, vehicle, user>>
    /\ UNCHANGED storeVars
    /\ UNCHANGED extVars

\* CheckBlacklist that consults the deny-list and then goes on regardless
CheckBlacklist_NoReturn ==
    /\ pc = "blacklist"
    /\ lookups' = Append(lookups, "IsBlacklisted")
    /\ \/ /\ MayFail
          /\ failed' = failed \cup {"IsBlacklisted"}
       \/ /\ IsBlacklisted(recognitionResult.LicensePlate) # {}
          /\ UNCHANGED failed
    /\ pc' = "vehicle"
    /\ UNCHANGED <<access_logs, response, result>>
    /\ UNCHANGED <<now, req, recognitionResult, vehicle, user>>
    /\ UNCHANGED storeVars
    /\ UNCHANGED extVars

\* step 3: blacklistRepo.IsBlacklisted (lines 137-155)
CheckBlacklist ==
    /\ pc = "blacklist"
    /\ lookups' = Append(lookups, "IsBlacklisted")
    /\ \/ /\ MayFail
          /\ failed' = failed \cup {"IsBlacklisted"}
          /\ pc' = "vehicle"
          /\ UNCHANGED <<access_logs, response, result>>
       \/ \E r \in IsBlacklisted(recognitionResult.LicensePlate) :
             IF r.found
             THEN Finish([response EXCEPT !.AccessGranted = FALSE,
                                          !.Reason = "Blacklisted: " \o r.reason],
                         "", "")
             ELSE /\ pc' = "vehicle"
                  /\ UNCHANGED <<access_logs, failed, response, result>>
    /\ UNCHANGED <<now, req, recognitionResult, vehicle, user>>
    /\ UNCHANGED storeVars
    /\ UNCHANGED extVars

\* FindVehicle that answers a store error with the not-registered denial
FindVehicle_ErrorAsDeny ==
    /\ pc = "vehicle"
    /\ lookups' = Append(lookups, "GetByLicensePlate")
    /\ \/ /\ MayFail
          /\ response' = [response EXCEPT !.AccessGranted = FALSE,
                                          !.Reason = "Vehicle not registered"]
          /\ failed' = failed \cup {"GetByLicensePlate"}
          /\ access_logs' = access_logs
          /\ pc' = "done"
          /\ result' = "response"
          /\ UNCHANGED vehicle
       \/ /\ GetByLicensePlate(recognitionResult.LicensePlate) = {}
          /\ Finish([response EXCEPT !.AccessGranted = FALSE,
                                     !.Reason = "Vehicle not registered"], "", "")
          /\ UNCHANGED vehicle
       \/ \E v \in GetByLicensePlate(recognitionResult.LicensePlate) :
             IF ~vehicles[v].is_active
             THEN /\ Finish([response EXCEPT !.AccessGranted = FALSE,
                                             !.Reason = "Vehicle is inactive"], v, "")
                  /\ UNCHANGED vehicle
             ELSE /\ vehicle' = v
                  /\ response' = [response EXCEPT !.Vehicle = v]
                  /\ pc' = "owner"
                  /\ UNCHANGED <<access_logs, failed, result>>
    /\ UNCHANGED <<now, req, recognitionResult, user>>
    /\ UNCHANGED storeVars
    /\ UNCHANGED extVars

\* step 4: vehicleRepo.GetByLicensePlate and the active check (lines 157-187)
FindVehicle ==
    /\ pc = "vehicle"
    /\ lookups' = Append(lookups, "GetByLicensePlate")
    /\ \/ /\ MayFail
          /\ Fail("GetByLicensePlate")
          /\ UNCHANGED vehicle
       \/ /\ GetByLicensePlate(recognitionResult.LicensePlate) = {}
          /\ Finish([response EXCEPT !.AccessGranted = FALSE,
                                     !.Reason = "Vehicle not registered"], "", "")
          /\ UNCHANGED vehicle
       \/ \E v \in GetByLicensePlate(recognitionResult.LicensePlate) :
             IF ~vehicles[v].is_active
             THEN /\ Finish([response EXCEPT !.AccessGranted = FALSE,
                                             !.Reason = "Vehicle is inactive"], v, "")
                  /\ UNCHANGED vehicle
             ELSE /\ vehicle' = v
                  /\ response' = [response EXCEPT !.Vehicle = v]
                  /\ pc' = "owner"
                  /\ UNCHANGED <<access_logs, failed, result>>
    /\ UNCHANGED <<now, req, recognitionResult, user>>
    /\ UNCHANGED storeVars
    /\ UNCHANGED extVars

\* FindOwner without the check of the owner's active flag
FindOwner_NoActiveCheck ==
    /\ pc = "owner"
    /\ lookups' = Append(lookups, "GetByID")
    /\ \/ /\ MayFail
          /\ Fail("GetByID")
          /\ UNCHANGED user
       \/ /\ users[vehicles[vehicle].owner_id] = NoRow
          /\ Finish([response EXCEPT !.AccessGranted = FALSE,
                                     !.Reason = "Vehicle owner not found"], vehicle, "")
          /\ UNCHANGED user
       \/ /\ users[vehicles[vehicle].owner_id] # NoRow
          /\ user' = vehicles[vehicle].owner_id
          /\ response' = [response EXCEPT !.User = vehicles[vehicle].owner_id]
          /\ pc' = "passes"
          /\ UNCHANGED <<access_logs, failed, result>>
    /\ UNCHANGED <<now, req, recognitionResult, vehicle>>
    /\ UNCHANGED storeVars
    /\ UNCHANGED extVars

\* step 5: userRepo.GetByID of the owner and the active check (lines 189-219)
FindOwner ==
    /\ pc = "owner"
    /\ lookups' = Append(lookups, "GetByID")
    /\ \/ /\ MayFail
          /\ Fail("GetByID")
          /\ UNCHANGED user
       \/ /\ users[vehicles[vehicle].owner_id] = NoRow
          /\ Finish([response EXCEPT !.AccessGranted = FALSE,
                                     !.Reason = "Vehicle owner not found"], vehicle, "")
          /\ UNCHANGED user
       \/ /\ users[vehicles[vehicle].owner_id] # NoRow
          /\ IF ~users[vehicles[vehicle].owner_id].is_active
             THEN /\ Finish([response EXCEPT !.AccessGranted = FALSE,
                                             !.Reason = "User account is inactive"],
                            vehicle, vehicles[vehicle].owner_id)
                  /\ UNCHANGED user
             ELSE /\ user' = vehicles[vehicle].owner_id
                  /\ response' = [response EXCEPT !.User = vehicles[vehicle].owner_id]
                  /\ pc' = "passes"
                  /\ UNCHANGED <<access_logs, failed, result>>
    /\ UNCHANGED <<now, req, recognitionResult, vehicle>>
    /\ UNCHANGED storeVars
    /\ UNCHANGED extVars

\* FirstValid that looks at the newest pass only
FirstValid_NewestOnly(list, t) ==
    IF list = <<>> THEN ""
    ELSE IF IsValid(passes[Head(list)], t) THEN Head(list)
    ELSE ""

\* the loop of lines 244-250: the first pass of the list that IsValid, or ""
RECURSIVE FirstValid(_, _)
FirstValid(list, t) ==
    IF list = <<>> THEN ""
    ELSE IF IsValid(passes[Head(list)], t) THEN Head(list)
    ELSE FirstValid(Tail(list), t)

\* steps 6-8: passRepo.GetActivePassesByUserAndVehicle and the decision
\* (lines 221-278)
CheckPasses ==
    /\ pc = "passes"
    /\ lookups' = Append(lookups, "GetActivePassesByUserAndVehicle")
    /\ \/ /\ MayFail
          /\ Fail("GetActivePassesByUserAndVehicle")
       \/ LET list == GetActivePassesByUserAndVehicle(user, vehicle)
              validPass == FirstValid(list, now)
          IN  IF Len(list) = 0
              THEN Finish([response EXCEPT !.AccessGranted = FALSE,
                              !.Reason = "No valid pass found for this vehicle"],
                          vehicle, user)
              ELSE IF validPass = ""
              THEN Finish([response EXCEPT !.AccessGranted = FALSE,
                              !.Reason = "All passes expired or invalid"],
                          vehicle, user)
              ELSE Finish([response EXCEPT !.AccessGranted = TRUE,
                              !.Pass = validPass,
                              !.Reason = "Valid pass found"],
                          vehicle, user)
    /\ UNCHANGED <<now, req, recognitionResult, vehicle, user>>
    /\ UNCHANGED storeVars
    /\ UNCHANGED extVars

\* the caller has the answer; the next check starts afresh
Return ==
    /\ pc = "done"
    /\ pc' = "idle"
    /\ access_logs' = <<>>
    /\ req' = NoRequest
    /\ recognitionResult' = NoRecognition
    /\ response' = NoResponse
    /\ vehicle' = ""
    /\ user' = ""
    /\ lookups' = <<>>
    /\ failed' = {}
    /\ result' = "none"
    /\ UNCHANGED now
    /\ UNCHANGED storeVars
    /\ UNCHANGED extVars

(***************************************************************************)
(* Specification                                                           *)
(***************************************************************************)
ExpiryTimes == {NoTime, 1}
ListPlates == {RawPlateA, PlateX}

Admin ==
    \/ \E u \in Users : Register(u)
    \/ \E u \in Users, a \in BOOLEAN : UserUpdate(u, a)
    \/ \E v \in VehicleIds, u \in Users : CreateVehicle(v, u, RawPlateA)
    \/ \E v \in VehicleIds, a \in BOOLEAN : VehicleUpdate(v, a)
    \/ \E u \in Users : CreatePass("p1", u, PassTypeTemporary, 0, 1, VehicleIds)
    \/ \E u \in Users : CreatePass("p2", u, PassTypePermanent, 1, NoTime, VehicleIds)
    \/ \E p \in PassIds, u \in Users, r \in RevokeReasons : RevokePass(p, u, r)
    \/ \E id \in WhitelistIds, r \in WhitelistReasons, e \in ExpiryTimes, a \in BOOLEAN,
          lp \in ListPlates : WhitelistCreate(id, lp, r, e, a)
    \/ \E id \in WhitelistIds, r \in WhitelistReasons, e \in ExpiryTimes, a \in BOOLEAN,
          lp \in ListPlates : WhitelistUpdate(id, lp, r, e, a)
    \/ \E id \in WhitelistIds : WhitelistDelete(id)
    \/ \E id \in BlacklistIds, r \in BlacklistReasons, e \in ExpiryTimes, a \in BOOLEAN,
          lp \in ListPlates : BlacklistCreate(id, lp, r, e, a)
    \/ \E id \in BlacklistIds, r \in BlacklistReasons, e \in ExpiryTimes, a \in BOOLEAN,
          lp \in ListPlates : BlacklistUpdate(id, lp, r, e, a)
    \/ \E id \in BlacklistIds : BlacklistDelete(id)

CheckAccess ==
    \/ \E request \in Requests, rec \in RecognitionOutcomes : Recognize(request, rec)
    \/ CheckWhitelist
    \/ CheckBlacklist
    \/ FindVehicle
    \/ FindOwner
    \/ CheckPasses
    \/ Return

Next == Admin \/ Tick \/ CheckAccess

Spec == Init /\ [][Next]_vars

TypeOK ==
    /\ now \in Times
    /\ pc \in {"idle", "whitelist", "blacklist", "vehicle", "owner", "passes", "done"}
    /\ result \in {"none", "response", "error"}
    /\ Len(access_logs) <= 1 + Len(lookups)

(***************************************************************************)
(* Entitlement lifecycle: an administrative routine that reads a pass,     *)
(* revokes it in memory with Pass.Revoke and writes it back with           *)
(* passRepository.Update, next to pass.Service.RevokePass                  *)
(***************************************************************************)
NotInRevoke == 0
FirstRevokeLine == 309
LastRevokeLine == 312

\* passRepository.GetByID: the routine reads the row into a *domain.Pass
PassGetByID(p) ==
    /\ held = NoRow
    /\ passes[p] # NoRow
    /\ held' = [id |-> p, pass |-> passes[p], line |-> NotInRevoke,
                now |-> NoTime, revokedBy |-> "", reason |-> ""]
    /\ UNCHANGED <<now, cache, op>>
    /\ UNCHANGED storeVars
    /\ UNCHANGED callVars

\* Pass.Revoke is entered: `now := time.Now()` (line 308)
PassRevokeCall(revokedBy, reason) ==
    /\ held # NoRow
    /\ held.line = NotInRevoke
    /\ held' = [held EXCEPT !.line = FirstRevokeLine, !.now = now,
                            !.revokedBy = revokedBy, !.reason = reason]
    /\ UNCHANGED <<now, cache, op>>
    /\ UNCHANGED storeVars
    /\ UNCHANGED callVars

\* Pass.Revoke with the active flag cleared after the revocation fields
PassRevokeLine_ActiveLast ==
    /\ held # NoRow
    /\ held.line # NotInRevoke
    /\ held' =
          [held EXCEPT
              !.pass = IF held.line = 309 THEN [@ EXCEPT !.revoked_at = held.now]
                       ELSE IF held.line = 310 THEN [@ EXCEPT !.revoked_by = held.revokedBy]
                       ELSE IF held.line = 311 THEN [@ EXCEPT !.revoke_reason = held.reason]
                       ELSE [@ EXCEPT !.is_active = FALSE],
              !.line = IF held.line = LastRevokeLine THEN NotInRevoke ELSE held.line + 1]
    /\ UNCHANGED <<now, cache, op>>
    /\ UNCHANGED storeVars
    /\ UNCHANGED callVars

\* Pass.Revoke, one assignment at a time (lines 309-312)
PassRevokeLine ==
    /\ held # NoRow
    /\ held.line # NotInRevoke
    /\ held' =
          [held EXCEPT
              !.pass = IF held.line = 309 THEN [@ EXCEPT !.is_active = FALSE]
                       ELSE IF held.line = 310 THEN [@ EXCEPT !.revoked_at = held.now]
                       ELSE IF held.line = 311 THEN [@ EXCEPT !.revoked_by = held.revokedBy]
                       ELSE [@ EXCEPT !.revoke_reason = held.reason],
              !.line = IF held.line = LastRevokeLine THEN NotInRevoke ELSE held.line + 1]
    /\ UNCHANGED <<now, cache, op>>
    /\ UNCHANGED storeVars
    /\ UNCHANGED callVars

\* passRepository.Update: one UPDATE statement that writes every column of the
\* held pass but created_at; the routine then lets go of the pass
PassUpdate ==
    /\ held # NoRow
    /\ held.line = NotInRevoke
    /\ passes[held.id] # NoRow
    /\ ValidDatesCheck(held.pass)
    /\ passes' = [passes EXCEPT ![held.id] =
                     [held.pass EXCEPT !.created_at = passes[held.id].created_at]]
    /\ held' = NoRow
    /\ UNCHANGED <<now, users, vehicles, pass_vehicles, whitelist, blacklist, cache, op>>
    /\ UNCHANGED callVars

PassValidFroms == {1}
PassValidUntils == {NoTime} \cup Times

PassNext ==
    \/ \E u \in Users : Register(u)
    \/ \E v \in VehicleIds, u \in Users : CreateVehicle(v, u, RawPlateA)
    \/ \E p \in PassIds, u \in Users, t \in {PassTypePermanent, PassTypeTemporary},
          f \in PassValidFroms, e \in PassValidUntils :
             CreatePass(p, u, t, f, e, VehicleIds)
    \/ \E p \in PassIds, u \in Users, r \in RevokeReasons : RevokePass(p, u, r)
    \/ \E p \in PassIds : PassGetByID(p)
    \/ \E u \in Users, r \in RevokeReasons : PassRevokeCall(u, r)
    \/ PassRevokeLine
    \/ PassUpdate
    \/ Tick

PassSpec == Init /\ [][PassNext]_vars

(***************************************************************************)
(* pass.Service.RevokePass, statement by statement, called by several      *)
(* administrators at once                                                  *)
(***************************************************************************)
\* the identities that call RevokePass (`revokedBy`)
Revokers == {"admin1", "admin2"}

\* domain.ErrPassAlreadyRevoked
ErrPassAlreadyRevoked == "pass already revoked"

\* an administrator that has not called RevokePass
NoCall == [at |-> "none"]

\* the RevokePass calls made so far, by caller
Calls == IF op.name = "RevokePass" THEN op.calls ELSE [a \in Revokers |-> NoCall]

\* RevokePass up to its call of passRepo.Revoke: passRepo.GetByID and the test
\* of pass.IsActive (lines 162-170)
RevokePassGetByID(revokedBy, passID, reason, dbFailed) ==
    LET call == [at |-> "Revoke", passID |-> passID, reason |-> reason, err |-> ""]
        Returned(c, err) == [c EXCEPT !.at = "returned", !.err = err]
    IN  /\ Calls[revokedBy] = NoCall
        /\ op' = [name |-> "RevokePass",
                  calls |-> [Calls EXCEPT ![revokedBy] =
                      IF dbFailed THEN Returned(call, "db")
                      ELSE IF passes[passID] = NoRow THEN Returned(call, "pass not found")
                      ELSE IF ~passes[passID].is_active
                           THEN Returned(call, ErrPassAlreadyRevoked)
                      ELSE call]]
        /\ UNCHANGED <<now, held, cache>>
        /\ UNCHANGED storeVars
        /\ UNCHANGED callVars

\* passRepo.Revoke (one UPDATE ... WHERE id = $1) and the return of
\* RevokePass (lines 173-184)
RevokePassRevoke(revokedBy, dbFailed) ==
    LET call == Calls[revokedBy]
        found == passes[call.passID] # NoRow
        Returned(c, err) == [c EXCEPT !.at = "returned", !.err = err]
    IN  /\ call.at = "Revoke"
        /\ op' = [op EXCEPT !.calls[revokedBy] =
                      IF dbFailed THEN Returned(call, "failed to revoke pass: db")
                      ELSE IF ~found
                           THEN Returned(call, "failed to revoke pass: pass not found")
                      ELSE Returned(call, "")]
        /\ passes' = IF dbFailed \/ ~found THEN passes
                     ELSE [passes EXCEPT ![call.passID].is_active = FALSE,
                                         ![call.passID].revoked_at = now,
                                         ![call.passID].revoked_by = revokedBy,
                                         ![call.passID].revoke_reason = call.reason]
        /\ UNCHANGED <<now, users, vehicles, pass_vehicles, whitelist, blacklist,
                       held, cache>>
        /\ UNCHANGED callVars

RevokeNext ==
    \/ \E u \in Users : Register(u)
    \/ \E v \in VehicleIds, u \in Users : CreateVehicle(v, u, RawPlateA)
    \/ \E p \in PassIds, u \in Users, f \in PassValidFroms :
          CreatePass(p, u, PassTypePermanent, f, NoTime, VehicleIds)
    \/ \E a \in Revokers, p \in PassIds, r \in RevokeReasons, dbFailed \in BOOLEAN :
          RevokePassGetByID(a, p, r, dbFailed)
    \/ \E a \in Revokers, dbFailed \in BOOLEAN : RevokePassRevoke(a, dbFailed)
    \/ Tick

RevokeSpec == Init /\ [][RevokeNext]_vars

(***************************************************************************)
(* Operations of the caching repositories                                  *)
(***************************************************************************)
\* the table a caching repository of this kind wraps
Table(kind) == IF kind = "whitelist" THEN whitelist ELSE blacklist

\* cache.Get answers with a value: the key is set and has not expired
Cached(key) == cache[key] # NoRow

\* the store's answer, its "" reason as a character sequence
StoreAnswers(kind, licensePlate) ==
    {[found |-> r.found, reason |-> IF r.found THEN r.reason ELSE NoReason] :
        r \in ListLookup(Table(kind), licensePlate)}

\* the assignment of a new table to the list of this kind
SetTable(kind, table) ==
    IF kind = "whitelist"
    THEN whitelist' = table /\ UNCHANGED blacklist
    ELSE blacklist' = table /\ UNCHANGED whitelist

\* CachedCheck that takes a failure of the store for "not in the list"
CachedCheck_AbsentOnStoreError(kind, licensePlate) ==
    LET key == cacheKey(kind, licensePlate)
        parts == IF Cached(key) THEN SplitN2(cache[key].value) ELSE <<>>
        called == OpOf("Check", kind, licensePlate)
    IN  /\ \/ \* cache.Get returns a value that parses: answered from the cache
              /\ Cached(key)
              /\ Len(parts) = 2
              /\ op' = [called EXCEPT !.hit = TRUE,
                                      !.cached = cache[key].value,
                                      !.found = (parts[1] = <<"1">>),
                                      !.reason = parts[2]]
              /\ UNCHANGED cache
           \/ \* cache.Get returns redis.Nil, a value that does not parse, or a
              \* transport error: the store is asked
              \E getFailed \in BOOLEAN :
                 /\ getFailed \/ ~Cached(key) \/ Len(parts) # 2
                 /\ \/ \* repo.IsWhitelisted returns an error
                       /\ op' = [called EXCEPT
                                    !.cacheValue = CacheValue(FALSE, NoReason),
                                    !.failedCalls =
                                        {"Store"} \cup (IF getFailed THEN {"Get"} ELSE {})]
                       /\ cache' = [cache EXCEPT ![key] =
                                       [value |-> CacheValue(FALSE, NoReason),
                                        expires_at |-> now + CacheTTL]]
                    \/ \E r \in StoreAnswers(kind, licensePlate), setFailed \in BOOLEAN :
                          /\ op' = [called EXCEPT
                                       !.found = r.found,
                                       !.reason = r.reason,
                                       !.cacheValue = CacheValue(r.found, r.reason),
                                       !.failedCalls =
                                           (IF getFailed THEN {"Get"} ELSE {})
                                               \cup (IF setFailed THEN {"Set"} ELSE {})]
                          /\ cache' = IF setFailed THEN cache
                                      ELSE [cache EXCEPT ![key] =
                                               [value |-> CacheValue(r.found, r.reason),
                                                expires_at |-> now + CacheTTL]]
        /\ UNCHANGED <<now, users, vehicles, passes, pass_vehicles, whitelist,
                       blacklist, held>>
        /\ UNCHANGED callVars

\* CachedCheck that returns the transport error of cache.Get
CachedCheck_FailsOnCacheError(kind, licensePlate) ==
    LET key == cacheKey(kind, licensePlate)
        parts == IF Cached(key) THEN SplitN2(cache[key].value) ELSE <<>>
        called == OpOf("Check", kind, licensePlate)
    IN  /\ \/ \* cache.Get returns a value that parses: answered from the cache
              /\ Cached(key)
              /\ Len(parts) = 2
              /\ op' = [called EXCEPT !.hit = TRUE,
                                      !.cached = cache[key].value,
                                      !.found = (parts[1] = <<"1">>),
                                      !.reason = parts[2]]
              /\ UNCHANGED cache
           \/ \* cache.Get returns redis.Nil, a value that does not parse, or a
              \* transport error: the store is asked
              \E getFailed \in BOOLEAN :
                 /\ getFailed \/ ~Cached(key) \/ Len(parts) # 2
                 /\ \/ /\ getFailed
                       /\ op' = [called EXCEPT !.err = "cache", !.failedCalls = {"Get"}]
                       /\ UNCHANGED cache
                    \/ \* repo.IsWhitelisted returns an error
                       /\ op' = [called EXCEPT
                                    !.err = "store",
                                    !.failedCalls =
                                        {"Store"} \cup (IF getFailed THEN {"Get"} ELSE {})]
                       /\ UNCHANGED cache
                    \/ \E r \in StoreAnswers(kind, licensePlate), setFailed \in BOOLEAN :
                          /\ op' = [called EXCEPT
                                       !.found = r.found,
                                       !.reason = r.reason,
                                       !.cacheValue = CacheValue(r.found, r.reason),
                                       !.failedCalls =
                                           (IF getFailed THEN {"Get"} ELSE {})
                                               \cup (IF setFailed THEN {"Set"} ELSE {})]
                          /\ cache' = IF setFailed THEN cache
                                      ELSE [cache EXCEPT ![key] =
                                               [value |-> CacheValue(r.found, r.reason),
                                                expires_at |-> now + CacheTTL]]
        /\ UNCHANGED <<now, users, vehicles, passes, pass_vehicles, whitelist,
                       blacklist, held>>
        /\ UNCHANGED callVars

\* WhitelistRepository.IsWhitelisted / BlacklistRepository.IsBlacklisted
CachedCheck(kind, licensePlate) ==
    LET key == cacheKey(kind, licensePlate)
        parts == IF Cached(key) THEN SplitN2(cache[key].value) ELSE <<>>
        called == OpOf("Check", kind, licensePlate)
    IN  /\ \/ \* cache.Get returns a value that parses: answered from the cache
              /\ Cached(key)
              /\ Len(parts) = 2
              /\ op' = [called EXCEPT !.hit = TRUE,
                                      !.cached = cache[key].value,
                                      !.found = (parts[1] = <<"1">>),
                                      !.reason = parts[2]]
              /\ UNCHANGED cache
           \/ \* cache.Get returns redis.Nil, a value that does not parse, or a
              \* transport error: the store is asked
              \E getFailed \in BOOLEAN :
                 /\ getFailed \/ ~Cached(key) \/ Len(parts) # 2
                 /\ \/ \* repo.IsWhitelisted returns an error
                       /\ op' = [called EXCEPT
                                    !.err = "store",
                                    !.failedCalls =
                                        {"Store"} \cup (IF getFailed THEN {"Get"} ELSE {})]
                       /\ UNCHANGED cache
                    \/ \E r \in StoreAnswers(kind, licensePlate), setFailed \in BOOLEAN :
                          /\ op' = [called EXCEPT
                                       !.found = r.found,
                                       !.reason = r.reason,
                                       !.cacheValue = CacheValue(r.found, r.reason),
                                       !.failedCalls =
                                           (IF getFailed THEN {"Get"} ELSE {})
                                               \cup (IF setFailed THEN {"Set"} ELSE {})]
                          /\ cache' = IF setFailed THEN cache
                                      ELSE [cache EXCEPT ![key] =
                                               [value |-> CacheValue(r.found, r.reason),
                                                expires_at |-> now + CacheTTL]]
        /\ UNCHANGED <<now, users, vehicles, passes, pass_vehicles, whitelist,
                       blacklist, held>>
        /\ UNCHANGED callVars

\* the effect of `_ = r.cache.Del(ctx, keys...)` on the cache and on op
Del(keys, called, delFailed) ==
    /\ cache' = IF delFailed THEN cache
                ELSE [k \in CacheKeys |-> IF k \in keys THEN NoRow ELSE cache[k]]
    /\ op' = [called EXCEPT
                 !.failedCalls = IF delFailed THEN {"Del"} ELSE {},
                 !.removed = IF delFailed THEN 0
                             ELSE Cardinality({k \in keys : Cached(k)})]

\* CachedCreate without the invalidation of the key
CachedCreate_NoDel(kind, id, licensePlate, reason, expiresAt, isActive) ==
    LET called == OpOf("Create", kind, NormalizeLicensePlate(licensePlate))
    IN  /\ Table(kind)[id] = NoRow
        /\ \/ /\ op' = [called EXCEPT !.err = "store", !.failedCalls = {"Store"}]
              /\ UNCHANGED <<whitelist, blacklist, cache>>
           \/ /\ SetTable(kind, [Table(kind) EXCEPT ![id] =
                                    EntryRow(licensePlate, reason, expiresAt, isActive)])
              /\ op' = called
              /\ UNCHANGED cache
        /\ UNCHANGED <<now, users, vehicles, passes, pass_vehicles, held>>
        /\ UNCHANGED callVars

\* WhitelistRepository.Create / BlacklistRepository.Create
CachedCreate(kind, id, licensePlate, reason, expiresAt, isActive) ==
    LET called == OpOf("Create", kind, NormalizeLicensePlate(licensePlate))
    IN  /\ Table(kind)[id] = NoRow
        /\ \/ \* repo.Create returns an error
              /\ op' = [called EXCEPT !.err = "store", !.failedCalls = {"Store"}]
              /\ UNCHANGED <<whitelist, blacklist, cache>>
           \/ \E delFailed \in BOOLEAN :
                 /\ SetTable(kind, [Table(kind) EXCEPT ![id] =
                                       EntryRow(licensePlate, reason, expiresAt, isActive)])
                 /\ Del({cacheKey(kind, NormalizeLicensePlate(licensePlate))},
                        called, delFailed)
        /\ UNCHANGED <<now, users, vehicles, passes, pass_vehicles, held>>
        /\ UNCHANGED callVars

\* CachedUpdate without the invalidation of the key
CachedUpdate_NoDel(kind, id, licensePlate, reason, expiresAt, isActive) ==
    LET called == OpOf("Update", kind, NormalizeLicensePlate(licensePlate))
    IN  /\ Table(kind)[id] # NoRow
        /\ \/ /\ op' = [called EXCEPT !.err = "store", !.failedCalls = {"Store"}]
              /\ UNCHANGED <<whitelist, blacklist, cache>>
           \/ /\ SetTable(kind, [Table(kind) EXCEPT ![id] =
                                    EntryRow(licensePlate, reason, expiresAt, isActive)])
              /\ op' = called
              /\ UNCHANGED cache
        /\ UNCHANGED <<now, users, vehicles, passes, pass_vehicles, held>>
        /\ UNCHANGED callVars

\* WhitelistRepository.Update / BlacklistRepository.Update
CachedUpdate(kind, id, licensePlate, reason, expiresAt, isActive) ==
    LET called == OpOf("Update", kind, NormalizeLicensePlate(licensePlate))
    IN  /\ Table(kind)[id] # NoRow
        /\ \/ \* repo.Update returns an error
              /\ op' = [called EXCEPT !.err = "store", !.failedCalls = {"Store"}]
              /\ UNCHANGED <<whitelist, blacklist, cache>>
           \/ \E delFailed \in BOOLEAN :
                 /\ SetTable(kind, [Table(kind) EXCEPT ![id] =
                                       EntryRow(licensePlate, reason, expiresAt, isActive)])
                 /\ Del({cacheKey(kind, NormalizeLicensePlate(licensePlate))},
                        called, delFailed)
        /\ UNCHANGED <<now, users, vehicles, passes, pass_vehicles, held>>
        /\ UNCHANGED callVars

\* WhitelistRepository.Delete / BlacklistRepository.Delete by id: the row goes,
\* the cache is left as it is
CachedDelete(kind, id) ==
    /\ Table(kind)[id] # NoRow
    /\ \/ \* repo.Delete returns an error
          /\ op' = [OpOf("Delete", kind, Table(kind)[id].license_plate)
                       EXCEPT !.err = "store", !.failedCalls = {"Store"}]
          /\ UNCHANGED <<whitelist, blacklist>>
       \/ /\ SetTable(kind, [Table(kind) EXCEPT ![id] = NoRow])
          /\ op' = OpOf("Delete", kind, Table(kind)[id].license_plate)
    /\ UNCHANGED cache
    /\ UNCHANGED <<now, users, vehicles, passes, pass_vehicles, held>>
    /\ UNCHANGED callVars

\* repo.Delete(ctx, licensePlate) of the earlier repository interface: the rows
\* stored under the plate
RowsOfPlate(kind, licensePlate) ==
    {id \in DOMAIN Table(kind) :
        /\ Table(kind)[id] # NoRow
        /\ Table(kind)[id].license_plate = NormalizeLicensePlate(licensePlate)}

\* repo.DeleteExpired of the earlier repository interface: the rows the
\* GetExpired query selects for deletion
ExpiredRows(kind) ==
    {id \in DOMAIN Table(kind) :
        /\ Table(kind)[id] # NoRow
        /\ Table(kind)[id].is_active
        /\ Table(kind)[id].expires_at # NoTime
        /\ Table(kind)[id].expires_at < now}

\* the earlier WhitelistRepository.Delete / BlacklistRepository.Delete, by plate
CachedDeleteByPlate(kind, licensePlate) ==
    LET called == OpOf("DeleteByPlate", kind, licensePlate)
    IN  /\ \/ \* repo.Delete returns an error
              /\ op' = [called EXCEPT !.err = "store", !.failedCalls = {"Store"}]
              /\ UNCHANGED <<whitelist, blacklist, cache>>
           \/ \E delFailed \in BOOLEAN :
                 /\ SetTable(kind, [id \in DOMAIN Table(kind) |->
                                       IF id \in RowsOfPlate(kind, licensePlate)
                                       THEN NoRow ELSE Table(kind)[id]])
                 /\ Del({cacheKey(kind, licensePlate)}, called, delFailed)
        /\ UNCHANGED <<now, users, vehicles, passes, pass_vehicles, held>>
        /\ UNCHANGED callVars

\* SCAN with the pattern prefix + "*": the keys of the list's namespace
Scan(kind) ==
    {k \in CacheKeys :
        /\ Cached(k)
        /\ Len(k) >= Len(CachePrefix(kind))
        /\ SubSeq(k, 1, Len(CachePrefix(kind))) = CachePrefix(kind)}

\* CachedDeleteExpired that deletes the keys of the swept plates only
CachedDeleteExpired_SweptKeysOnly(kind) ==
    LET called == OpOf("DeleteExpired", kind, NoPlate)
        swept == ExpiredRows(kind)
    IN  /\ \/ /\ op' = [called EXCEPT !.err = "store", !.failedCalls = {"Store"}]
              /\ UNCHANGED <<whitelist, blacklist, cache>>
           \/ /\ SetTable(kind, [id \in DOMAIN Table(kind) |->
                                    IF id \in swept THEN NoRow ELSE Table(kind)[id]])
              /\ \/ /\ op' = [called EXCEPT !.err = "scan"]
                    /\ UNCHANGED cache
                 \/ \E delFailed \in BOOLEAN :
                       /\ delFailed => swept # {}
                       /\ Del({cacheKey(kind, Table(kind)[id].license_plate) : id \in swept},
                              called, delFailed)
        /\ UNCHANGED <<now, users, vehicles, passes, pass_vehicles, held>>
        /\ UNCHANGED callVars

\* the earlier WhitelistRepository.DeleteExpired / BlacklistRepository.DeleteExpired
CachedDeleteExpired(kind) ==
    LET called == OpOf("DeleteExpired", kind, NoPlate)
    IN  /\ \/ \* repo.DeleteExpired returns an error
              /\ op' = [called EXCEPT !.err = "store", !.failedCalls = {"Store"}]
              /\ UNCHANGED <<whitelist, blacklist, cache>>
           \/ /\ SetTable(kind, [id \in DOMAIN Table(kind) |->
                                    IF id \in ExpiredRows(kind)
                                    THEN NoRow ELSE Table(kind)[id]])
              /\ \/ \* iter.Err() is not nil
                    /\ op' = [called EXCEPT !.err = "scan"]
                    /\ UNCHANGED cache
                 \/ \* Del is called when the scan found keys
                    \E delFailed \in BOOLEAN :
                       /\ delFailed => Scan(kind) # {}
                       /\ Del(Scan(kind), called, delFailed)
        /\ UNCHANGED <<now, users, vehicles, passes, pass_vehicles, held>>
        /\ UNCHANGED callVars

\* CacheTick that leaves the expired keys in the cache
CacheTick_KeepsExpired ==
    /\ now + OneHour <= MaxTime * OneHour
    /\ now' = now + OneHour
    /\ UNCHANGED <<users, vehicles, passes, pass_vehicles, whitelist, blacklist,
                   held, op, cache>>
    /\ UNCHANGED callVars

\* an hour passes and the cache drops the keys whose TTL has run out
CacheTick ==
    /\ now + OneHour <= MaxTime * OneHour
    /\ now' = now + OneHour
    /\ cache' = [k \in CacheKeys |->
                    IF Cached(k) /\ cache[k].expires_at <= now + OneHour
                    THEN NoRow ELSE cache[k]]
    /\ UNCHANGED <<users, vehicles, passes, pass_vehicles, whitelist, blacklist,
                   held, op>>
    /\ UNCHANGED callVars

\* the entries the administrator writes: active ones, under the raw plate
CacheEntryPlates == {RawPlateA}
CacheEntryActive == {TRUE}

CacheNext ==
    \/ \E c \in CachePlates : CachedCheck(c[1], c[2])
    \/ \E kind \in ListKinds : \E id \in DOMAIN Table(kind), lp \in CacheEntryPlates,
          r \in CacheReasons, e \in ExpiryTimes, a \in CacheEntryActive :
             CachedCreate(kind, id, lp, r, e, a)
    \/ \E kind \in ListKinds : \E id \in DOMAIN Table(kind), lp \in CacheEntryPlates,
          r \in CacheReasons, e \in ExpiryTimes, a \in CacheEntryActive :
             CachedUpdate(kind, id, lp, r, e, a)
    \/ \E kind \in ListKinds : \E id \in DOMAIN Table(kind) : CachedDelete(kind, id)
    \/ \E c \in CachePlates : CachedDeleteByPlate(c[1], c[2])
    \/ \E kind \in ListKinds : CachedDeleteExpired(kind)
    \/ CacheTick

CacheSpec == Init /\ [][CacheNext]_vars

(***************************************************************************)
(* Functions applied to inputs of bounded size                             *)
(***************************************************************************)
MaxPlateLen == 3

\* the characters of the plates: a lower-case and an upper-case letter, a
\* digit, the space that is removed and a tab that is not
PlateChars == {"a", "A", "1", " ", "\t"}

PlateInputs ==
    UNION {[1..n -> PlateChars] : n \in 0..MaxPlateLen}

\* the domain.Pass values IsValid is applied to
PassInputs ==
    [is_active : BOOLEAN,
     pass_type : {PassTypePermanent, PassTypeTemporary},
     valid_from : Times,
     valid_until : {NoTime} \cup Times]

\* NormalizeLicensePlate(plate), and NormalizeLicensePlate of its result
ApplyNormalize(plate) ==
    /\ op' = [name |-> "NormalizeLicensePlate",
              plate |-> plate,
              once |-> NormalizeLicensePlate(plate),
              twice |-> NormalizeLicensePlate(NormalizeLicensePlate(plate))]
    /\ UNCHANGED <<now, held, cache>>
    /\ UNCHANGED storeVars
    /\ UNCHANGED callVars

\* p.IsValid() at the instant t
ApplyIsValid(p, t) ==
    /\ op' = [name |-> "IsValid", pass |-> p, now |-> t, valid |-> IsValid(p, t)]
    /\ UNCHANGED <<now, held, cache>>
    /\ UNCHANGED storeVars
    /\ UNCHANGED callVars

FnNext ==
    \/ \E plate \in PlateInputs : ApplyNormalize(plate)
    \/ \E p \in PassInputs, t \in Times : ApplyIsValid(p, t)

FnSpec == Init /\ [][FnNext]_vars

(***************************************************************************)
(* The allow-list behind its caching repository under a clock that ticks   *)
(* three times an hour: an entry can expire while the value cached for it  *)
(* is still in the cache.                                                  *)
(***************************************************************************)
\* twenty minutes pass
FineTick ==
    /\ now < MaxTime
    /\ now' = now + 1
    /\ cache' = [k \in CacheKeys |->
                    IF Cached(k) /\ cache[k].expires_at <= now + 1
                    THEN NoRow ELSE cache[k]]
    /\ UNCHANGED <<held, op>>
    /\ UNCHANGED storeVars
    /\ UNCHANGED callVars

ExpiryNext ==
    \/ \E lp \in {RawPlateA, PlateA} : CachedCheck("whitelist", lp)
    \/ \E id \in WhitelistIds, r \in CacheReasons, e \in ExpiryTimes, a \in BOOLEAN :
          CachedCreate("whitelist", id, RawPlateA, r, e, a)
    \/ \E id \in WhitelistIds, r \in CacheReasons, e \in ExpiryTimes, a \in BOOLEAN :
          CachedUpdate("whitelist", id, RawPlateA, r, e, a)
    \/ \E id \in WhitelistIds : CachedDelete("whitelist", id)
    \/ FineTick

ExpirySpec == Init /\ [][ExpiryNext]_vars

(***************************************************************************)
(* Entries whose plate an Update changes                                   *)
(***************************************************************************)
RenameNext ==
    \/ \E kind \in ListKinds, lp \in {PlateA, PlateB} : CachedCheck(kind, lp)
    \/ \E kind \in ListKinds : \E id \in DOMAIN Table(kind), lp \in {PlateA, PlateB},
          r \in CacheReasons :
             CachedCreate(kind, id, lp, r, NoTime, TRUE)
    \/ \E kind \in ListKinds : \E id \in DOMAIN Table(kind), lp \in {PlateA, PlateB},
          r \in CacheReasons :
             CachedUpdate(kind, id, lp, r, NoTime, TRUE)
    \/ CacheTick

RenameSpec == Init /\ [][RenameNext]_vars

(***************************************************************************)
(* A Check running concurrently with the writes.  IsWhitelisted /           *)
(* IsBlacklisted makes three calls, cache.Get, the store's lookup and      *)
(* cache.Set; a write of another goroutine can fall between any two of     *)
(* them.  held is the Check in flight: its arguments, the call it makes    *)
(* next and the answer the store gave it.  A write takes one step: a step  *)
(* of a Check between its store call and its Del leaves the cache as some  *)
(* order of the two whole operations does.                                 *)
(***************************************************************************)
\* the Check in flight is about to make this call
InCheck(call) == held # NoRow /\ held.name = "Check" /\ held.next = call

\* lines 37-49: cache.Get; a value that parses is returned at once
CheckGet(kind, licensePlate) ==
    LET key == cacheKey(kind, licensePlate)
        parts == IF Cached(key) THEN SplitN2(cache[key].value) ELSE <<>>
        called == OpOf("Check", kind, licensePlate)
    IN  /\ held = NoRow
        /\ \/ /\ Cached(key)
              /\ Len(parts) = 2
              /\ op' = [called EXCEPT !.hit = TRUE,
                                      !.cached = cache[key].value,
                                      !.found = (parts[1] = <<"1">>),
                                      !.reason = parts[2]]
              /\ UNCHANGED held
           \/ /\ held' = [name |-> "Check", kind |-> kind,
                           licensePlate |-> licensePlate, next |-> "store",
                           found |-> FALSE, reason |-> NoReason]
              /\ UNCHANGED op
        /\ UNCHANGED <<now, cache>>
        /\ UNCHANGED storeVars
        /\ UNCHANGED callVars

\* lines 57-61: repo.IsWhitelisted
CheckStore ==
    /\ InCheck("store")
    /\ \/ /\ op' = [OpOf("Check", held.kind, held.licensePlate)
                       EXCEPT !.err = "store", !.failedCalls = {"Store"}]
          /\ held' = NoRow
       \/ \E r \in StoreAnswers(held.kind, held.licensePlate) :
             /\ held' = [held EXCEPT !.next = "set",
                                     !.found = r.found, !.reason = r.reason]
             /\ UNCHANGED op
    /\ UNCHANGED <<now, cache>>
    /\ UNCHANGED storeVars
    /\ UNCHANGED callVars

\* lines 63-72: cache.Set of the answer read, and the return
CheckSet(setFailed) ==
    LET key == cacheKey(held.kind, held.licensePlate)
        cacheValue == CacheValue(held.found, held.reason)
    IN  /\ InCheck("set")
        /\ op' = [OpOf("Check", held.kind, held.licensePlate)
                     EXCEPT !.found = held.found,
                            !.reason = held.reason,
                            !.cacheValue = cacheValue,
                            !.failedCalls = IF setFailed THEN {"Set"} ELSE {}]
        /\ cache' = IF setFailed THEN cache
                    ELSE [cache EXCEPT ![key] =
                             [value |-> cacheValue, expires_at |-> now + CacheTTL]]
        /\ held' = NoRow
        /\ UNCHANGED now
        /\ UNCHANGED storeVars
        /\ UNCHANGED callVars

\* the identifiers checked and the entries written while a Check is in flight
RacePlates == {<<"whitelist", PlateA>>, <<"blacklist", PlateA>>}

\* CacheTick while a Check may be in flight
RaceTick ==
    /\ now + OneHour <= MaxTime * OneHour
    /\ now' = now + OneHour
    /\ cache' = [k \in CacheKeys |->
                    IF Cached(k) /\ cache[k].expires_at <= now + OneHour
                    THEN NoRow ELSE cache[k]]
    /\ UNCHANGED <<held, op>>
    /\ UNCHANGED storeVars
    /\ UNCHANGED callVars

RaceNext ==
    \/ \E c \in RacePlates : CheckGet(c[1], c[2])
    \/ CheckStore
    \/ \E setFailed \in BOOLEAN : CheckSet(setFailed)
    \/ \E kind \in ListKinds : \E id \in DOMAIN Table(kind), r \in CacheReasons,
          a \in BOOLEAN : CachedCreate(kind, id, PlateA, r, NoTime, a)
    \/ \E kind \in ListKinds : \E id \in DOMAIN Table(kind), r \in CacheReasons,
          a \in BOOLEAN : CachedUpdate(kind, id, PlateA, r, NoTime, a)
    \/ RaceTick

RaceSpec == Init /\ [][RaceNext]_vars

(***************************************************************************)
(* httpClient.RecognizePlate: the retry loop, one action per pass of the   *)
(* loop.  op holds the call: the number of doRequest calls made, the       *)
(* errors they returned in order, and what the call returned.              *)
(***************************************************************************)
\* maxRetries := 3
maxRetries == 3

\* the errors of doRequest: httpClient.Do failing on the network or on the
\* timeout, a status code other than 200, a body that does not unmarshal
NetworkErrors == {"network", "timeout"}
RequestErrors == NetworkErrors \cup {"status", "decode"}

\* isRetryable(err)
isRetryable(err) == TRUE

\* the call is inside its loop
InRecognizePlate == op.name = "RecognizePlate" /\ op.returned = "none"

\* RecognizePlate is called: the request is built, attempt := 0
RecognizePlateCall ==
    /\ ~InRecognizePlate
    /\ op' = [name |-> "RecognizePlate", attempt |-> 0, requests |-> 0,
              errors |-> <<>>, returned |-> "none"]
    /\ UNCHANGED <<now, held, cache>>
    /\ UNCHANGED storeVars
    /\ UNCHANGED callVars

\* one pass of the loop (lines 94-116): the backoff before a further
\* attempt, doRequest, and the test of the loop for the next pass
RecognizePlateAttempt(cancelled, outcome) ==
    /\ InRecognizePlate
    /\ op.attempt < maxRetries
    /\ IF op.attempt > 0 /\ cancelled
       THEN \* <-ctx.Done() during the backoff
            op' = [op EXCEPT !.returned = "ctx.Err()"]
       ELSE IF outcome = "ok"
       THEN op' = [op EXCEPT !.requests = @ + 1, !.returned = "result"]
       ELSE IF ~isRetryable(outcome)
       THEN op' = [op EXCEPT !.requests = @ + 1,
                             !.errors = Append(@, outcome),
                             !.returned = "error"]
       ELSE op' = [op EXCEPT !.requests = @ + 1,
                             !.errors = Append(@, outcome),
                             !.attempt = @ + 1,
                             !.returned = IF op.attempt + 1 < maxRetries
                                          THEN "none" ELSE "error"]
    /\ UNCHANGED <<now, held, cache>>
    /\ UNCHANGED storeVars
    /\ UNCHANGED callVars

RecognizeNext ==
    \/ RecognizePlateCall
    \/ \E cancelled \in BOOLEAN, outcome \in {"ok"} \cup RequestErrors :
          RecognizePlateAttempt(cancelled, outcome)

RecognizeSpec == Init /\ [][RecognizeNext]_vars

(***************************************************************************)
(* Vocabulary of the properties.  The store and the clock do not change    *)
(* while a call is in flight, so in every state of a call the store is the *)
(* one each of its lookups read.                                           *)
(***************************************************************************)
Recognized == ~recognitionResult.err /\ recognitionResult.Success

Identifier == NormalizeLicensePlate(recognitionResult.LicensePlate)

Decided == pc = "done" /\ result = "response"

\* an active, unexpired entry of the list for the identifier
Listed(table, identifier) ==
    \E id \in DOMAIN table :
        /\ table[id] # NoRow
        /\ table[id].license_plate = identifier
        /\ table[id].is_active
        /\ (table[id].expires_at = NoTime \/ now < table[id].expires_at)

AllowListed == Listed(whitelist, Identifier)
DenyListed == Listed(blacklist, Identifier)

\* the vehicle registered under the identifier, if any
RegisteredVehicles ==
    {v \in VehicleIds : vehicles[v] # NoRow /\ vehicles[v].license_plate = Identifier}

\* the entitlement is honorable at instant t (section 4.1 of the specification)
Honorable(p, t) ==
    /\ p.is_active
    /\ t >= p.valid_from
    /\ ~(p.pass_type = PassTypeTemporary /\ p.valid_until # NoTime /\ t > p.valid_until)

\* the entitlements that link the owner of vehicle v to v
Linking(v) ==
    {p \in PassIds :
        /\ passes[p] # NoRow
        /\ passes[p].user_id = vehicles[v].owner_id
        /\ <<p, v>> \in pass_vehicles}

StageOrder ==
    <<"RecognizePlate", "IsWhitelisted", "IsBlacklisted", "GetByLicensePlate",
      "GetByID", "GetActivePassesByUserAndVehicle">>

StoreStages == {"GetByLicensePlate", "GetByID", "GetActivePassesByUserAndVehicle"}

\* the stage a reason string comes from
DecidingStage(reason) ==
    IF reason \in {"Recognition service unavailable"}
                  \cup {"License plate not recognized: " \o e : e \in RecognizerErrors}
    THEN 1
    ELSE IF reason \in {"Whitelisted: " \o r : r \in WhitelistReasons} THEN 2
    ELSE IF reason \in {"Blacklisted: " \o r : r \in BlacklistReasons} THEN 3
    ELSE IF reason \in {"Vehicle not registered", "Vehicle is inactive"} THEN 4
    ELSE IF reason \in {"Vehicle owner not found", "User account is inactive"} THEN 5
    ELSE 6

(***************************************************************************)
(* Properties                                                              *)
(***************************************************************************)

\* C1 (as stated): a recognized identifier with an active, unexpired
\* allow-list entry is granted access by every call, whatever else holds.
C1_AllowListedAlwaysGranted ==
    (pc = "done" /\ Recognized /\ AllowListed)
        => (result = "response" /\ response.AccessGranted)

\* C1 (amended): a recognized identifier with an active, unexpired allow-list
\* entry is granted access whenever the allow-list lookup returns without
\* error, whatever its deny-list membership, vehicle, owner and entitlements.
C1_AllowListedGrantedWhenLookupSucceeds ==
    (pc = "done" /\ Recognized /\ AllowListed /\ "IsWhitelisted" \notin failed)
        => (result = "response" /\ response.AccessGranted)

C1_Witness ==
    /\ Decided /\ Recognized /\ AllowListed /\ "IsWhitelisted" \notin failed
    /\ DenyListed
    /\ RegisteredVehicles = {}
    /\ response.AccessGranted

\* C2 (as stated): a recognized identifier with an active, unexpired deny-list
\* entry and no allow-list entry is denied by every call.
C2_DenyListedAlwaysDenied ==
    (pc = "done" /\ Recognized /\ DenyListed /\ ~AllowListed)
        => (result = "response" /\ ~response.AccessGranted)

\* C2 (amended): a recognized identifier with an active, unexpired deny-list
\* entry and no allow-list entry is denied whenever the deny-list lookup
\* returns without error, whatever the vehicle, owner and entitlements.
C2_DenyListedDeniedWhenLookupSucceeds ==
    (pc = "done" /\ Recognized /\ DenyListed /\ ~AllowListed
        /\ "IsBlacklisted" \notin failed)
        => (result = "response" /\ ~response.AccessGranted)

C2_Witness ==
    /\ Decided /\ Recognized /\ DenyListed /\ ~AllowListed
    /\ "IsBlacklisted" \notin failed
    /\ \E v \in RegisteredVehicles :
          /\ vehicles[v].is_active
          /\ users[vehicles[v].owner_id].is_active
          /\ \E p \in Linking(v) : Honorable(passes[p], now)
    /\ ~response.AccessGranted

\* C3: the lookups of a call are issued in the order recognition, allow-list,
\* deny-list, vehicle, owner, entitlements, and the last lookup of a call that
\* returned a decision is the one of the stage that decided.
C3_StagesInOrderAndShortCircuit ==
    /\ Len(lookups) <= Len(StageOrder)
    /\ \A i \in 1..Len(lookups) : lookups[i] = StageOrder[i]
    /\ Decided => Len(lookups) = DecidingStage(response.Reason)
    /\ (Decided /\ ~Recognized) => lookups = <<"RecognizePlate">>

C3_Witness ==
    /\ Decided /\ Recognized /\ AllowListed /\ DenyListed
    /\ RegisteredVehicles # {}
    /\ lookups = <<"RecognizePlate", "IsWhitelisted">>

\* C4 (as stated): when the recognizer fails or reports a confidence below
\* the configured minimum, the call denies and runs no later stage.
C4_LowConfidenceDeniedAtOnce ==
    (pc = "done" /\ (~Recognized \/ recognitionResult.Confidence < MinConfidence))
        => /\ result = "response"
           /\ ~response.AccessGranted
           /\ lookups = <<"RecognizePlate">>

\* C5 (as stated): every call that returns a decision has appended exactly
\* one audit record.
C5_OneAuditRecordPerDecision ==
    Decided => Len(access_logs) = 1

\* C6: a store error at the vehicle, owner or entitlement lookup makes the call
\* return an error, no response and no audit record.
C6_StoreErrorIsReturned ==
    (pc = "done" /\ failed \cap StoreStages # {})
        => (result = "error" /\ response = NoResponse /\ access_logs = <<>>)

C6_Witness ==
    /\ pc = "done"
    /\ "GetActivePassesByUserAndVehicle" \in failed
    /\ result = "error"

\* C7: after a failed allow-list lookup the call goes on to the deny-list, and
\* after a failed deny-list lookup to the vehicle; the failed tier decides
\* nothing, and an error result always comes from a later store lookup.
C7_ListErrorFailsOpen ==
    /\ ("IsWhitelisted" \in failed /\ pc # "blacklist")
          => (Len(lookups) >= 3 /\ lookups[3] = "IsBlacklisted")
    /\ ("IsBlacklisted" \in failed /\ pc # "vehicle")
          => (Len(lookups) >= 4 /\ lookups[4] = "GetByLicensePlate")
    /\ (Decided /\ "IsWhitelisted" \in failed) => DecidingStage(response.Reason) # 2
    /\ (Decided /\ "IsBlacklisted" \in failed) => DecidingStage(response.Reason) # 3
    /\ (pc = "done" /\ result = "error") => failed \cap StoreStages # {}

C7_Witness ==
    /\ Decided /\ Recognized
    /\ "IsWhitelisted" \in failed
    /\ AllowListed
    /\ DecidingStage(response.Reason) = 4

\* C8: for an identifier in neither list, a decision is the denial of the
\* identity tier whenever the vehicle is not registered or inactive or its
\* owner is not found or inactive, entitlements notwithstanding.
C8_IdentityTierDenies ==
    (Decided /\ Recognized /\ ~AllowListed /\ ~DenyListed)
        => /\ RegisteredVehicles = {}
                 => (~response.AccessGranted
                        /\ response.Reason = "Vehicle not registered")
           /\ \A v \in RegisteredVehicles :
                 /\ ~vehicles[v].is_active
                       => (~response.AccessGranted
                              /\ response.Reason = "Vehicle is inactive")
                 /\ (vehicles[v].is_active /\ users[vehicles[v].owner_id] = NoRow)
                       => (~response.AccessGranted
                              /\ response.Reason = "Vehicle owner not found")
                 /\ (vehicles[v].is_active /\ users[vehicles[v].owner_id] # NoRow
                        /\ ~users[vehicles[v].owner_id].is_active)
                       => (~response.AccessGranted
                              /\ response.Reason = "User account is inactive")

C8_Witness ==
    /\ Decided /\ Recognized /\ ~AllowListed /\ ~DenyListed
    /\ response.Reason = "User account is inactive"
    /\ \E v \in RegisteredVehicles : \E p \in Linking(v) : Honorable(passes[p], now)

\* C9: for an identifier in neither list whose vehicle and owner are active, a
\* decision is a grant exactly when some entitlement linking owner and vehicle
\* is honorable now, and the entitlement attached to a grant is honorable.
C9_GrantIffSomeEntitlementHonorable ==
    (Decided /\ Recognized /\ ~AllowListed /\ ~DenyListed)
        => \A v \in RegisteredVehicles :
              (vehicles[v].is_active /\ users[vehicles[v].owner_id] # NoRow
                  /\ users[vehicles[v].owner_id].is_active)
                 => /\ response.AccessGranted
                          <=> \E p \in Linking(v) : Honorable(passes[p], now)
                    /\ response.AccessGranted
                          => /\ response.Pass \in Linking(v)
                             /\ Honorable(passes[response.Pass], now)

\* a newer expired entitlement was passed over for an older valid one
C9_Witness ==
    /\ Decided /\ Recognized /\ ~AllowListed /\ ~DenyListed
    /\ response.AccessGranted
    /\ \E v \in RegisteredVehicles : \E p \in Linking(v), q \in Linking(v) :
          /\ response.Pass = q
          /\ passes[p].is_active
          /\ ~Honorable(passes[p], now)
          /\ passes[p].created_at > passes[q].created_at

\* C10 (as stated): Pass.IsValid is false for a temporary entitlement whose
\* valid_until is the current instant.
C10_InvalidAtValidUntil ==
    \A p \in PassIds :
        (passes[p] # NoRow /\ passes[p].pass_type = PassTypeTemporary
            /\ passes[p].valid_until = now)
           => ~IsValid(passes[p], now)

\* C10 (amended): an active, started temporary entitlement is valid up to and
\* including valid_until: Pass.IsValid is true when now = valid_until and
\* false only when now is after valid_until, and a call that reaches the
\* entitlement tier at now = valid_until grants on it.
C10_ValidThroughValidUntil ==
    /\ \A p \in PassIds :
          (passes[p] # NoRow /\ passes[p].pass_type = PassTypeTemporary
              /\ passes[p].valid_until # NoTime /\ passes[p].is_active
              /\ passes[p].valid_from <= now)
             => (IsValid(passes[p], now) <=> now <= passes[p].valid_until)
    /\ (Decided /\ Len(lookups) = 6)
          => \A p \in Linking(vehicle) :
                (passes[p].pass_type = PassTypeTemporary /\ passes[p].is_active
                    /\ passes[p].valid_from <= now /\ passes[p].valid_until = now)
                   => response.AccessGranted

C10_Witness ==
    /\ Decided
    /\ response.AccessGranted
    /\ response.Pass \in PassIds
    /\ passes[response.Pass].pass_type = PassTypeTemporary
    /\ passes[response.Pass].valid_until = now

\* the pass carries a revocation timestamp, revoking identity or reason
Revoked(pass) ==
    pass.revoked_at # NoTime \/ pass.revoked_by # "" \/ pass.revoke_reason # ""

\* C11 (as stated): once a stored entitlement is inactive, no write to the
\* passes table (RevokePass, passRepository.Revoke, passRepository.Update)
\* makes its active flag true again.
C11_RevokedNeverReactivated ==
    [][\A p \in PassIds :
          (passes[p] # NoRow /\ ~passes[p].is_active) => ~passes'[p].is_active]_vars

\* C12: every pass a reader can observe, a row of the passes table or the
\* pass inside Pass.Revoke between two of its assignments, that carries a
\* revocation timestamp, revoking identity or reason is inactive.
C12_RevokedImpliesInactive ==
    /\ \A p \in PassIds :
          (passes[p] # NoRow /\ Revoked(passes[p])) => ~passes[p].is_active
    /\ (held # NoRow /\ Revoked(held.pass)) => ~held.pass.is_active

\* Pass.Revoke has written the timestamp and not yet the reason, while the
\* table holds a row that RevokePass revoked
C12_Witness ==
    /\ held # NoRow
    /\ held.line = LastRevokeLine
    /\ held.pass.revoked_at # NoTime
    /\ held.pass.revoke_reason = ""
    /\ ~held.pass.is_active
    /\ \E p \in PassIds : passes[p] # NoRow /\ Revoked(passes[p]) /\ p # held.id

(***************************************************************************)
(* The caching repositories                                                *)
(***************************************************************************)
\* the last operation was a Check answered from the cache
CheckHit == op.name = "Check" /\ op.hit

\* the last operation was a Check answered by the store
CheckMissed == op.name = "Check" /\ ~op.hit /\ op.err = ""

\* C13: a Check answered by the store writes to the cache the one value that
\* encodes the pair it returns, and a Check answered from the cache returns a
\* pair that encodes to the very value it read, so both return the same
\* membership and the same reason, reasons holding ":" included; distinct
\* pairs have distinct encodings.
C13_CachedAnswerIsPopulatedAnswer ==
    /\ CheckMissed => op.cacheValue = CacheValue(op.found, op.reason)
    /\ CheckHit => op.cached = CacheValue(op.found, op.reason)
    /\ \A k \in CacheKeys :
          Cached(k) =>
              \E r \in CacheReasons, f \in BOOLEAN :
                  cache[k].value = CacheValue(f, IF f THEN r ELSE NoReason)
    /\ \A r \in CacheReasons : CacheValue(TRUE, r) # CacheValue(FALSE, NoReason)

C13_Witness ==
    /\ CheckHit
    /\ op.found
    /\ op.reason = <<"a", ":", "b">>

\* the last operation was a Create or an Update that returned no error
Written == op.name \in {"Create", "Update"} /\ op.err = ""

\* the cache key of the identifier the last operation was about
OpKey == cacheKey(op.kind, op.licensePlate)

\* every value in the cache was set no longer than the TTL ago
StalenessBounded ==
    \A k \in CacheKeys : Cached(k) => cache[k].expires_at <= now + CacheTTL

Deleted == op.name = "Delete" /\ op.err = ""

\* this step is a Check, returning no error, of the identifier the operation
\* before it was about
ChecksSameIdentifier ==
    /\ op'.name = "Check"
    /\ op'.err = ""
    /\ op'.kind = op.kind
    /\ NormalizeLicensePlate(op'.licensePlate) = op.licensePlate

\* no value outlives its TTL
CacheValuesLive ==
    \A k \in CacheKeys :
        Cached(k) => (now < cache[k].expires_at /\ cache[k].expires_at <= now + CacheTTL)

IsCheckStep == op'.name = "Check" /\ now' = now

\* C16: a Check whose call to the store fails returns the error and leaves the
\* cache as it was, and a value enters the cache only as the encoding of an
\* answer the store gave to the Check that wrote it, so no Check, answered by
\* the store or from the cache, turns a failure of the store into "not a
\* member".
C16_StoreFailureReturnedNotCached ==
    /\ []((op.name = "Check" /\ "Store" \in op.failedCalls)
             => (op.err = "store" /\ ~op.hit))
    /\ [][(IsCheckStep /\ "Store" \in op'.failedCalls) => cache' = cache]_vars
    /\ [][\A k \in CacheKeys :
             (Cached(k)' /\ cache'[k] # cache[k])
                 => /\ IsCheckStep
                    /\ op'.err = ""
                    /\ "Store" \notin op'.failedCalls
                    /\ k = cacheKey(op'.kind, op'.licensePlate)
                    /\ cache'[k].value = CacheValue(op'.found, op'.reason)
                    /\ [found |-> op'.found, reason |-> op'.reason]
                          \in StoreAnswers(op'.kind, op'.licensePlate)]_vars

C16_Witness ==
    /\ op.name = "Check"
    /\ op.failedCalls = {"Store"}
    /\ op.err = "store"
    /\ ~Cached(OpKey)
    /\ \E id \in DOMAIN Table(op.kind) : Table(op.kind)[id] # NoRow

\* C17: a Check whose cache.Get fails with a transport error or whose
\* cache.Set fails, the store answering, returns no error and the answer of
\* the store; so does a Check for which both fail.
C17_CacheOutageAnsweredByStore ==
    [][(/\ IsCheckStep
        /\ op'.failedCalls \cap {"Get", "Set"} # {}
        /\ "Store" \notin op'.failedCalls)
          => /\ op'.err = ""
             /\ ~op'.hit
             /\ [found |-> op'.found, reason |-> op'.reason]
                   \in StoreAnswers(op'.kind, op'.licensePlate)]_vars

C17_Witness ==
    /\ op.name = "Check"
    /\ op.failedCalls = {"Get", "Set"}
    /\ op.err = ""
    /\ op.found
    /\ \A k \in CacheKeys : ~Cached(k)

\* the last operation was a sweep of expired entries that returned no error
Swept == op.name = "DeleteExpired" /\ op.err = ""

KeysOfIdentifier ==
    {cacheKey(c[1], c[2]) : c \in {x \in CachePlates :
        /\ x[1] = op.kind
        /\ NormalizeLicensePlate(x[2]) = NormalizeLicensePlate(op.licensePlate)}}

\* C19 (as stated): every key Check sets in the cache is the key of a list
\* kind and a normalized identifier, and a Create or Update whose DEL the
\* cache carried out leaves no value under any key Check uses for an input
\* with the entry's normalized form.
C19_CheckKeyIsNormalized ==
    /\ \A k \in CacheKeys :
          Cached(k) =>
              \E c \in CachePlates : k = cacheKey(c[1], NormalizeLicensePlate(c[2]))
    /\ (Written /\ "Del" \notin op.failedCalls)
          => \A k \in KeysOfIdentifier : ~Cached(k)

\* C20 (as stated): every stored entitlement, when temporary, has a
\* valid_until strictly after its valid_from and, when permanent, has no
\* valid_until.
C20_StoredPassesWellFormed ==
    \A p \in PassIds :
        passes[p] # NoRow =>
            /\ passes[p].pass_type = PassTypeTemporary
                  => (passes[p].valid_until # NoTime
                         /\ passes[p].valid_until > passes[p].valid_from)
            /\ passes[p].pass_type = PassTypePermanent
                  => passes[p].valid_until = NoTime

(***************************************************************************)
(* Audit, normalization and Pass.IsValid                                   *)
(***************************************************************************)
\* the reasons of a grant
GrantReasons ==
    {"Whitelisted: " \o r : r \in WhitelistReasons} \cup {"Valid pass found"}

\* the call is over and its audit record was not persisted: the record did
\* not validate or accessLogRepo.Create failed
AuditFailed ==
    /\ pc = "done"
    /\ access_logs = <<>>
    /\ failed \cap StoreStages = {}

\* C21: a call whose audit record was not persisted, because the record did
\* not validate or because the store refused it, returns a response and no
\* error, and the response carries the decision and the reason the pipeline
\* reached: a grant with the reason of a grant, or a denial with the reason
\* of the stage that denied.
C21_AuditFailureKeepsDecision ==
    AuditFailed =>
        /\ result = "response"
        /\ response # NoResponse
        /\ response.AccessGranted <=> response.Reason \in GrantReasons
        /\ (Recognized /\ AllowListed /\ "IsWhitelisted" \notin failed
               /\ recognitionResult.Confidence >= MinConfidence)
              => response.AccessGranted
        /\ ~Recognized => DecidingStage(response.Reason) = 1

C21_Witness ==
    /\ AuditFailed
    /\ "accessLogRepo.Create" \in failed
    /\ response.AccessGranted
    /\ response.Reason = "Valid pass found"

\* C22: NormalizeLicensePlate applied to its own result returns that result,
\* and the result holds no space and no lower-case letter.
C22_NormalizeIdempotent ==
    op.name = "NormalizeLicensePlate" =>
        /\ op.twice = op.once
        /\ \A i \in 1..Len(op.once) :
              op.once[i] # " " /\ op.once[i] = ToUpper(op.once[i])

C22_Witness ==
    /\ op.name = "NormalizeLicensePlate"
    /\ op.plate = <<"a", " ", "\t">>
    /\ op.once = <<"A", "\t">>
    /\ op.twice = op.once

\* C23: Pass.IsValid at an instant is false for an inactive pass, false
\* before valid_from, false for a temporary pass with a valid_until the
\* instant is after, and true in every other case; so an active permanent
\* pass is valid at every instant from its valid_from on, whatever its
\* valid_until.
C23_IsValidCases ==
    op.name = "IsValid" =>
        /\ ~op.pass.is_active => ~op.valid
        /\ op.now < op.pass.valid_from => ~op.valid
        /\ (op.pass.pass_type = PassTypeTemporary /\ op.pass.valid_until # NoTime
               /\ op.now > op.pass.valid_until) => ~op.valid
        /\ (/\ op.pass.is_active
            /\ op.now >= op.pass.valid_from
            /\ ~(op.pass.pass_type = PassTypeTemporary /\ op.pass.valid_until # NoTime
                   /\ op.now > op.pass.valid_until)) => op.valid
        /\ (op.pass.pass_type = PassTypePermanent /\ op.pass.is_active
               /\ op.now >= op.pass.valid_from) => op.valid

C23_Witness ==
    /\ op.name = "IsValid"
    /\ op.pass.pass_type = PassTypePermanent
    /\ op.pass.valid_until # NoTime
    /\ op.now > op.pass.valid_until
    /\ op.valid

\* the call granted on an entitlement
GrantedOnPass == Decided /\ response.AccessGranted /\ response.Reason = "Valid pass found"

\* C24: the entitlement attached to a grant is the first honorable one of the
\* lookup's list, and no honorable entitlement linking the owner to the
\* vehicle was created after it.
C24_GrantOnNewestHonorable ==
    GrantedOnPass =>
        LET list == GetActivePassesByUserAndVehicle(user, vehicle)
        IN  /\ \E i \in 1..Len(list) :
                  /\ list[i] = response.Pass
                  /\ Honorable(passes[list[i]], now)
                  /\ \A j \in 1..(i - 1) : ~Honorable(passes[list[j]], now)
            /\ \A i \in 1..(Len(list) - 1) :
                  passes[list[i]].created_at >= passes[list[i + 1]].created_at
            /\ \A p \in Linking(vehicle) :
                  Honorable(passes[p], now)
                      => passes[p].created_at <= passes[response.Pass].created_at

\* two honorable entitlements, the grant on the one created last
C24_Witness ==
    /\ GrantedOnPass
    /\ \E p \in Linking(vehicle) :
          /\ p # response.Pass
          /\ Honorable(passes[p], now)
          /\ passes[p].created_at < passes[response.Pass].created_at

\* the key of the Check this step is
CheckKey == cacheKey(op'.kind, op'.licensePlate)

\* C25: a value a Check writes expires one hour after it was written; a Check
\* is answered from the cache only by a value that has not expired, which was
\* therefore written less than one hour before; and a Check that finds the
\* value of its key expired is answered by the store.
C25_StaleForAtMostOneTTL ==
    /\ [][\A k \in CacheKeys :
             (Cached(k)' /\ cache'[k] # cache[k])
                 => (IsCheckStep /\ cache'[k].expires_at = now + OneHour)]_vars
    /\ [][(IsCheckStep /\ op'.hit)
             => /\ Cached(CheckKey)
                /\ now < cache[CheckKey].expires_at
                /\ cache[CheckKey].expires_at - OneHour <= now]_vars
    /\ [][(IsCheckStep /\ ~Cached(CheckKey)) => ~op'.hit]_vars
    /\ [](\A k \in CacheKeys : Cached(k) => now < cache[k].expires_at)

\* the entry of the list is gone and the Check is answered "member" by a
\* value that expires within the hour
C25_Witness ==
    /\ CheckHit
    /\ op.found
    /\ now >= OneHour
    /\ \A id \in DOMAIN Table(op.kind) : Table(op.kind)[id] = NoRow
    /\ Cached(OpKey)
    /\ cache[OpKey].expires_at = now + OneHour

\* C26 (as stated): RecognizePlate makes at most three requests, and makes a
\* further request only after a request that failed with a network or a
\* timeout error.
C26_RetryOnlyNetworkErrors ==
    op.name = "RecognizePlate" =>
        /\ op.requests <= maxRetries
        /\ \A i \in 1..Len(op.errors) :
              i < op.requests => op.errors[i] \in NetworkErrors

\* the value under the key, if any, is the encoding of an answer the store
\* gives now for the identifier of the key
Coherent(k) ==
    Cached(k) =>
        \A c \in CachePlates :
            k = cacheKey(c[1], c[2]) =>
                \E r \in StoreAnswers(c[1], c[2]) :
                    cache[k].value = CacheValue(r.found, r.reason)

\* this step is the cache.Set and the return of the Check in flight
IsCheckSetStep == InCheck("set") /\ held' = NoRow

\* the Check in flight holds an answer the store no longer gives
HoldsOldAnswer ==
    /\ InCheck("set")
    /\ [found |-> held.found, reason |-> held.reason]
          \notin StoreAnswers(held.kind, held.licensePlate)

\* this step is a Create or an Update that wrote the store
IsWriteStep ==
    /\ op'.name \in {"Create", "Update"}
    /\ op'.err = ""
    /\ <<whitelist, blacklist>>' # <<whitelist, blacklist>>

EntryExpired ==
    \E id \in DOMAIN Table(op'.kind) :
        /\ Table(op'.kind)[id] # NoRow
        /\ Table(op'.kind)[id].license_plate = NormalizeLicensePlate(op'.licensePlate)
        /\ Table(op'.kind)[id].expires_at # NoTime
        /\ now > Table(op'.kind)[id].expires_at

\* C28 (as stated): a Check, answered by the store or from the cache, does
\* not report an identifier as a member at an instant after the expires_at
\* of its entry.
C28_NoMemberAfterExpiry ==
    [][(IsCheckStep /\ op'.err = "" /\ EntryExpired) => ~op'.found]_vars

\* C28 (amended): a Check answered by the store does not report an
\* identifier as a member after the expires_at of its entry; a Check answered
\* from the cache can, with a value that was set no longer than the TTL ago.
C28_MemberAfterExpiryOnlyFromCache ==
    /\ [][(IsCheckStep /\ op'.err = "" /\ EntryExpired /\ op'.found) => op'.hit]_vars
    /\ [](\A k \in CacheKeys : Cached(k) => now < cache[k].expires_at)
    /\ [](\A k \in CacheKeys : Cached(k) => cache[k].expires_at - CacheTTL <= now)

\* a Check was answered "in the list" from the cache after the entry's
\* expires_at
C28_Witness ==
    /\ op.name = "Check" /\ op.err = "" /\ op.hit /\ op.found
    /\ \E id \in WhitelistIds :
          /\ whitelist[id] # NoRow
          /\ whitelist[id].license_plate = NormalizeLicensePlate(op.licensePlate)
          /\ whitelist[id].expires_at # NoTime
          /\ now > whitelist[id].expires_at

\* C29 (as stated): of the RevokePass calls on one pass, however they
\* interleave, at most one returns success, and once the pass is revoked its
\* revocation time, revoking identity and reason are not written again.
C29_OneRevocationWins ==
    /\ [](\A p \in PassIds :
            Cardinality({a \in Revokers : /\ Calls[a].at = "returned"
                                          /\ Calls[a].passID = p
                                          /\ Calls[a].err = ""}) <= 1)
    /\ [][\A p \in PassIds :
            (passes[p] # NoRow /\ ~passes[p].is_active) => passes'[p] = passes[p]]_vars

\* C30 (as stated): when an Update changes the plate of an entry from A to B
\* and returns no error, the value under the cache key of A and the value
\* under the cache key of B, if any, are answers the store gives after it.
C30_RenameLeavesBothKeysCoherent ==
    [][\A kind \in ListKinds : \A id \in DOMAIN Table(kind) :
         \A A \in {PlateA, PlateB}, B \in {PlateA, PlateB} :
            ( /\ op'.name = "Update" /\ op'.err = "" /\ op'.kind = kind
              /\ Table(kind)[id] # NoRow
              /\ Table(kind)[id].license_plate = A
              /\ Table(kind)'[id].license_plate = B
              /\ A # B )
            => \A P \in {A, B} :
                  cache'[cacheKey(kind, P)] # NoRow
                  => \E r \in StoreAnswers(kind, P)' :
                        cache'[cacheKey(kind, P)].value = CacheValue(r.found, r.reason)]_vars

\* C30 (amended): an Update that changes the plate of an entry from A to B
\* deletes the cache key of B only (and not even that when the DEL fails); the
\* key of A keeps whatever value it had, which the TTL removes.
C30_RenameInvalidatesNewKeyOnly ==
    /\ [][\A kind \in ListKinds : \A id \in DOMAIN Table(kind) :
            \A A \in {PlateA, PlateB}, B \in {PlateA, PlateB} :
               ( /\ op'.name = "Update" /\ op'.err = "" /\ op'.kind = kind
                 /\ Table(kind)[id] # NoRow
                 /\ Table(kind)[id].license_plate = A
                 /\ Table(kind)'[id].license_plate = B
                 /\ A # B )
               => /\ cache'[cacheKey(kind, A)] = cache[cacheKey(kind, A)]
                  /\ "Del" \notin op'.failedCalls
                        => cache'[cacheKey(kind, B)] = NoRow]_vars
    /\ [](\A k \in CacheKeys : Cached(k) => cache[k].expires_at <= now + CacheTTL)

\* an Update has moved the entry of the allow-list from PlateA to PlateB and
\* the key of PlateA still says "in the list"
C30_Witness ==
    /\ op.name = "Update" /\ op.err = "" /\ op.kind = "whitelist"
    /\ op.licensePlate = PlateB
    /\ op.removed = 1
    /\ Cached(cacheKey("whitelist", PlateA))
    /\ cache[cacheKey("whitelist", PlateA)].value = CacheValue(TRUE, <<"a", ":", "b">>)
    /\ \A r \in StoreAnswers("whitelist", PlateA) : ~r.found
    /\ \E r \in StoreAnswers("whitelist", PlateB) : r.found

====
